---- MODULE Spec2Model ----
(***************************************************************************)
(* A model of scripts/check_style.py, the FERN_STYLE checker: the          *)
(* string-literal stripper, the function-boundary scanner, the fact        *)
(* collection and the rule evaluation of check_file.                       *)
(*                                                                         *)
(* Source text is modelled character by character: a line is a string, a   *)
(* file is the sequence of lines content.split("\n") yields, and every     *)
(* regular expression of the source is an operator over the characters of  *)
(* a line.                                                                 *)
(***************************************************************************)
EXTENDS Integers, Sequences, FiniteSets, TLC

VARIABLES
    main,       \* frame of main: the files found, the options, all_violations
    strip,      \* frame of strip_string_literals: line, i, in_string, string_char, result
    extract_params,  \* frame of extract_function_params: line, the names returned
    lines,      \* content.split("\n") of the file under check
    pc,         \* position of check_file / extract_functions
    scan,       \* frame of extract_functions
    functions,  \* the list extract_functions returned to check_file
    func_idx,   \* number of functions the rule loop of check_file has done
    violations  \* the list check_file builds

vars == <<main, strip, extract_params, lines, pc, scan, functions, func_idx, violations>>

----------------------------------------------------------------------------
(* Characters and strings.  Positions are 1-based as in TLA+; the source's *)
(* 0-based index i denotes the character at position i + 1.                *)

\* the character at position p, "" beyond either end
Ch(s, p) == IF p >= 1 /\ p <= Len(s) THEN SubSeq(s, p, p) ELSE ""

WordChars ==
    {"a", "b", "c", "d", "e", "f", "g", "h", "i", "j", "k", "l", "m",
     "n", "o", "p", "q", "r", "s", "t", "u", "v", "w", "x", "y", "z",
     "A", "B", "C", "D", "E", "F", "G", "H", "I", "J", "K", "L", "M",
     "N", "O", "P", "Q", "R", "S", "T", "U", "V", "W", "X", "Y", "Z",
     "0", "1", "2", "3", "4", "5", "6", "7", "8", "9", "_"}

\* \w of the re module
IsWord(c) == c \in WordChars

\* \s of the re module, and the characters str.strip() removes
IsSpace(c) == c \in {" ", "\t", "\n", "\r", "\f"}

\* s[p-1:].startswith(lit)
HasAt(s, p, lit) ==
    /\ p >= 1
    /\ p + Len(lit) - 1 <= Len(s)
    /\ SubSeq(s, p, p + Len(lit) - 1) = lit

\* lit in s
Contains(s, lit) == \E p \in 1..(Len(s) + 1) : HasAt(s, p, lit)

\* s.startswith(lit), s.endswith(lit)
StartsWith(s, lit) == HasAt(s, 1, lit)
EndsWith(s, lit) == HasAt(s, Len(s) - Len(lit) + 1, lit)

\* s.count(c) for a one-character c
RECURSIVE CountFrom(_, _, _)
CountFrom(s, c, p) ==
    IF p > Len(s) THEN 0
    ELSE (IF Ch(s, p) = c THEN 1 ELSE 0) + CountFrom(s, c, p + 1)

Count(s, c) == CountFrom(s, c, 1)

\* the first position >= p that holds no whitespace (Len(s) + 1 if none): \s*
RECURSIVE SkipSpace(_, _)
SkipSpace(s, p) ==
    IF p <= Len(s) /\ IsSpace(Ch(s, p)) THEN SkipSpace(s, p + 1) ELSE p

\* the first position >= p that holds no word character: \w*
RECURSIVE SkipWord(_, _)
SkipWord(s, p) ==
    IF p <= Len(s) /\ IsWord(Ch(s, p)) THEN SkipWord(s, p + 1) ELSE p

\* the first position >= p holding the character c, 0 if there is none
RECURSIVE IndexFrom(_, _, _)
IndexFrom(s, c, p) ==
    IF p > Len(s) THEN 0
    ELSE IF Ch(s, p) = c THEN p
    ELSE IndexFrom(s, c, p + 1)

\* the last position <= p that holds no whitespace (0 if none)
RECURSIVE SkipSpaceBack(_, _)
SkipSpaceBack(s, p) ==
    IF p >= 1 /\ IsSpace(Ch(s, p)) THEN SkipSpaceBack(s, p - 1) ELSE p

\* s.strip()
StrStrip(s) ==
    LET a == SkipSpace(s, 1)
        b == SkipSpaceBack(s, Len(s))
    IN  IF a > b THEN "" ELSE SubSeq(s, a, b)

\* \b at the left of position p (p holds a word character)
WordStartsAt(s, p) == p = 1 \/ ~IsWord(Ch(s, p - 1))

\* s[a-1:b] of Python, the empty string when a > b
Slice(s, a, b) == IF a > b THEN "" ELSE SubSeq(s, a, b)

\* s.lstrip("*")
RECURSIVE SkipStars(_, _)
SkipStars(s, p) ==
    IF p <= Len(s) /\ Ch(s, p) = "*" THEN SkipStars(s, p + 1) ELSE p

LStripStars(s) == Slice(s, SkipStars(s, 1), Len(s))

\* s.replace(pat, ""): the occurrences of pat, left to right, removed
RECURSIVE RemoveFrom(_, _, _)
RemoveFrom(s, pat, p) ==
    IF p > Len(s) THEN ""
    ELSE IF HasAt(s, p, pat) THEN RemoveFrom(s, pat, p + Len(pat))
    ELSE Ch(s, p) \o RemoveFrom(s, pat, p + 1)

Remove(s, pat) == RemoveFrom(s, pat, 1)

\* "\n".join(seq)
RECURSIVE JoinLines(_)
JoinLines(seq) ==
    IF seq = <<>> THEN ""
    ELSE IF Len(seq) = 1 THEN seq[1]
    ELSE seq[1] \o "\n" \o JoinLines(Tail(seq))

\* s.split(): the whitespace-separated words of s from position p on
RECURSIVE WordsFrom(_, _)
WordsFrom(s, p) ==
    LET a == SkipSpace(s, p) IN
    IF a > Len(s) THEN <<>>
    ELSE LET b == CHOOSE e \in a..Len(s) :
                      /\ \A q \in a..e : ~IsSpace(Ch(s, q))
                      /\ (e = Len(s) \/ IsSpace(Ch(s, e + 1)))
         IN  <<SubSeq(s, a, b)>> \o WordsFrom(s, b + 1)

Words(s) == WordsFrom(s, 1)

\* s.split(sep) for a one-character sep: the pieces of s, in order
RECURSIVE SplitFrom(_, _, _)
SplitFrom(s, sep, p) ==
    LET c == IndexFrom(s, sep, p) IN
    IF c = 0 THEN <<Slice(s, p, Len(s))>>
    ELSE <<Slice(s, p, c - 1)>> \o SplitFrom(s, sep, c + 1)

SplitComma(s) == SplitFrom(s, ",", 1)
SplitLines(s) == SplitFrom(s, "\n", 1)

\* " ".join(seq)
RECURSIVE JoinSpace(_)
JoinSpace(seq) ==
    IF seq = <<>> THEN ""
    ELSE IF Len(seq) = 1 THEN seq[1]
    ELSE seq[1] \o " " \o JoinSpace(Tail(seq))

\* re.search(r"\b<name>\s*\(", s)
CallOf(s, name) ==
    \E p \in 1..Len(s) :
        /\ HasAt(s, p, name)
        /\ WordStartsAt(s, p)
        /\ Ch(s, SkipSpace(s, p + Len(name))) = "("

----------------------------------------------------------------------------
(* strip_string_literals: one iteration of its while loop.                 *)

StripStart(line) ==
    [line |-> line, i |-> 0, in_string |-> FALSE, string_char |-> "",
     result |-> ""]

\* StripStep with the end-of-line test of the escape branch left out
StripStepNoBound(s) ==
    LET c == Ch(s.line, s.i + 1) IN
    IF ~s.in_string
    THEN IF c = "\"" \/ c = "'"
         THEN [s EXCEPT !.in_string = TRUE, !.string_char = c,
                        !.result = @ \o c, !.i = @ + 1]
         ELSE [s EXCEPT !.result = @ \o c, !.i = @ + 1]
    ELSE IF c = "\\"
         THEN [s EXCEPT !.result = @ \o "  ", !.i = @ + 2]
         ELSE IF c = s.string_char
              THEN [s EXCEPT !.in_string = FALSE, !.result = @ \o c,
                             !.i = @ + 1]
              ELSE [s EXCEPT !.result = @ \o " ", !.i = @ + 1]

\* StripStep blanking the closing quote with the contents
StripStepBlankQuote(s) ==
    LET c == Ch(s.line, s.i + 1) IN
    IF ~s.in_string
    THEN IF c = "\"" \/ c = "'"
         THEN [s EXCEPT !.in_string = TRUE, !.string_char = c,
                        !.result = @ \o c, !.i = @ + 1]
         ELSE [s EXCEPT !.result = @ \o c, !.i = @ + 1]
    ELSE IF c = "\\" /\ s.i + 1 < Len(s.line)
         THEN [s EXCEPT !.result = @ \o "  ", !.i = @ + 2]
         ELSE IF c = s.string_char
              THEN [s EXCEPT !.in_string = FALSE, !.result = @ \o " ",
                             !.i = @ + 1]
              ELSE [s EXCEPT !.result = @ \o " ", !.i = @ + 1]

\* StripStep without the escape branch: a backslash is ordinary content
StripStepNoEscape(s) ==
    LET c == Ch(s.line, s.i + 1) IN
    IF ~s.in_string
    THEN IF c = "\"" \/ c = "'"
         THEN [s EXCEPT !.in_string = TRUE, !.string_char = c,
                        !.result = @ \o c, !.i = @ + 1]
         ELSE [s EXCEPT !.result = @ \o c, !.i = @ + 1]
    ELSE IF c = s.string_char
         THEN [s EXCEPT !.in_string = FALSE, !.result = @ \o c,
                        !.i = @ + 1]
         ELSE [s EXCEPT !.result = @ \o " ", !.i = @ + 1]

StripStep(s) ==
    LET c == Ch(s.line, s.i + 1) IN
    IF ~s.in_string
    THEN IF c = "\"" \/ c = "'"
         THEN [s EXCEPT !.in_string = TRUE, !.string_char = c,
                        !.result = @ \o c, !.i = @ + 1]
         ELSE [s EXCEPT !.result = @ \o c, !.i = @ + 1]
    ELSE IF c = "\\" /\ s.i + 1 < Len(s.line)
         THEN [s EXCEPT !.result = @ \o "  ", !.i = @ + 2]
         ELSE IF c = s.string_char
              THEN [s EXCEPT !.in_string = FALSE, !.result = @ \o c,
                             !.i = @ + 1]
              ELSE [s EXCEPT !.result = @ \o " ", !.i = @ + 1]

StripDone(s) == ~(s.i < Len(s.line))

RECURSIVE StripRun(_)
StripRun(s) == IF StripDone(s) THEN s.result ELSE StripRun(StripStep(s))

strip_string_literals(line) == StripRun(StripStart(line))

----------------------------------------------------------------------------
(* The regular expressions and string tests of extract_functions.          *)

\* the last position <= p that holds no word character (0 if none)
RECURSIVE SkipWordBack(_, _)
SkipWordBack(s, p) ==
    IF p >= 1 /\ IsWord(Ch(s, p)) THEN SkipWordBack(s, p - 1) ELSE p

\* line.strip().startswith("#") or line.strip().startswith("//")
IsDirectiveOrComment(line) ==
    StartsWith(StrStrip(line), "#") \/ StartsWith(StrStrip(line), "//")

(* func_pattern.match(line).  Everything before the "(" of the pattern is  *)
(* made of word characters, "*" and whitespace, so the "(" it matches is   *)
(* the first one of the line and [^)]* ends at the first ")" after it; the *)
(* name is the last word before the "(", each earlier token is followed by *)
(* whitespace.  The optional modifiers are themselves [\w\*]+\s+ tokens.   *)
FuncOpen(line) == IndexFrom(line, "(", 1)
FuncNameEnd(line) == SkipSpaceBack(line, FuncOpen(line) - 1)
FuncNameStart(line) == SkipWordBack(line, FuncNameEnd(line)) + 1

FuncPatternMatches(line) ==
    LET open  == FuncOpen(line)
        e     == FuncNameEnd(line)
        b     == FuncNameStart(line)
        close == IndexFrom(line, ")", open + 1)
    IN  /\ open > 0
        /\ b <= e
        /\ b >= 3
        /\ IsSpace(Ch(line, b - 1))
        /\ ~IsSpace(Ch(line, 1))
        /\ \A q \in 1..(b - 1) :
              IsWord(Ch(line, q)) \/ Ch(line, q) = "*" \/ IsSpace(Ch(line, q))
        /\ close > 0
        /\ Ch(line, SkipSpace(line, close + 1)) = "{"

\* match.group(1) of func_pattern
FuncName(line) == Slice(line, FuncNameStart(line), FuncNameEnd(line))

(* ALLOW_PATTERN.search(line): the leftmost position of a comment opener   *)
(* followed by the marker and allow( ... ), 0 if there is none.            *)
AllowMatchesAt(line, p) ==
    LET m == SkipSpace(line, p + 2)
        a == SkipSpace(line, m + 11)
        close == IndexFrom(line, ")", a + 6)
    IN  /\ HasAt(line, p, "//") \/ HasAt(line, p, "/*")
        /\ HasAt(line, m, "FERN_STYLE:")
        /\ HasAt(line, a, "allow(")
        /\ close > a + 6

AllowMatch(line) ==
    IF \E p \in 1..Len(line) : AllowMatchesAt(line, p)
    THEN CHOOSE p \in 1..Len(line) :
             /\ AllowMatchesAt(line, p)
             /\ \A q \in 1..(p - 1) : ~AllowMatchesAt(line, q)
    ELSE 0

\* allow_match.group(1)
AllowGroup(line) ==
    LET p == AllowMatch(line)
        a == SkipSpace(line, SkipSpace(line, p + 2) + 11)
    IN  Slice(line, a + 6, IndexFrom(line, ")", a + 6) - 1)

\* the rule ids the annotation of a line adds: rule.strip() for each piece
AllowedOnLine(line) ==
    IF AllowMatch(line) = 0 THEN {}
    ELSE LET pieces == SplitComma(AllowGroup(line)) IN
         {StrStrip(pieces[n]) : n \in 1..Len(pieces)}

\* re.search(r"\bassert\s*\(", line), and the like for malloc and free
HasAssert(line) == CallOf(line, "assert")
HasMalloc(line) == CallOf(line, "malloc")
HasFree(line) == CallOf(line, "free")

\* re.search(r"\bwhile\s*\(\s*<body>\s*\)", line) for a literal body
WhileLiteral(line, body) ==
    \E p \in 1..Len(line) :
        LET open == SkipSpace(line, p + 5)
            b == SkipSpace(line, open + 1)
        IN  /\ HasAt(line, p, "while")
            /\ WordStartsAt(line, p)
            /\ Ch(line, open) = "("
            /\ HasAt(line, b, body)
            /\ Ch(line, SkipSpace(line, b + Len(body))) = ")"

\* re.search(r"\bfor\s*\(\s*;\s*;\s*\)", line)
ForEver(line) ==
    \E p \in 1..Len(line) :
        LET open == SkipSpace(line, p + 3)
            s1 == SkipSpace(line, open + 1)
            s2 == SkipSpace(line, s1 + 1)
        IN  /\ HasAt(line, p, "for")
            /\ WordStartsAt(line, p)
            /\ Ch(line, open) = "("
            /\ Ch(line, s1) = ";"
            /\ Ch(line, s2) = ";"
            /\ Ch(line, SkipSpace(line, s2 + 1)) = ")"

\* re.search(r"\bwhile\s*\(([^)]+)\)", line) matches at p
WhileMatchesAt(line, p) ==
    LET open == SkipSpace(line, p + 5) IN
    /\ HasAt(line, p, "while")
    /\ WordStartsAt(line, p)
    /\ Ch(line, open) = "("
    /\ IndexFrom(line, ")", open + 1) > open + 1

WhileMatch(line) ==
    IF \E p \in 1..Len(line) : WhileMatchesAt(line, p)
    THEN CHOOSE p \in 1..Len(line) :
             /\ WhileMatchesAt(line, p)
             /\ \A q \in 1..(p - 1) : ~WhileMatchesAt(line, q)
    ELSE 0

\* while_match.group(1)
WhileCondition(line) ==
    LET open == SkipSpace(line, WhileMatch(line) + 5) IN
    Slice(line, open + 1, IndexFrom(line, ")", open + 1) - 1)

\* the four loop tests of the body loop
LooksUnbounded(line) ==
    \/ WhileLiteral(line, "1")
    \/ WhileLiteral(line, "true")
    \/ ForEver(line)
    \/ /\ WhileMatch(line) # 0
       /\ LET condition == WhileCondition(line) IN
          /\ \A q \in 1..Len(condition) :
                Ch(condition, q) \notin {"<", ">", "=", "!"}
          /\ StrStrip(condition) \notin {"0", "false"}

----------------------------------------------------------------------------
(* parse_doc_comment.  Line indices are the source's 0-based ones:         *)
(* lines[i] of the source is lines[i + 1] here.                            *)

DocLookback == 30

DocAbsent ==
    [exists |-> FALSE, has_description |-> FALSE, documented_params |-> {},
     has_return |-> FALSE]

\* search_start without the lookback limit
search_startWholeFile(func_line_idx) == 0

search_start(func_line_idx) ==
    IF func_line_idx - DocLookback > 0 THEN func_line_idx - DocLookback ELSE 0

\* {m.group(1) for m in re.finditer(r"@param\s+(\w+)", text)}
DocumentedParams(text) ==
    {Slice(text, SkipSpace(text, p + 6), SkipWord(text, SkipSpace(text, p + 6)) - 1) :
        p \in {q \in 1..Len(text) :
                  /\ HasAt(text, q, "@param")
                  /\ SkipSpace(text, q + 6) > q + 6
                  /\ IsWord(Ch(text, SkipSpace(text, q + 6)))}}

\* re.search(r"@returns?\b", text)
HasReturnTag(text) ==
    \E p \in 1..Len(text) :
        /\ HasAt(text, p, "@return")
        /\ \/ Ch(text, p + 7) = "s" /\ ~IsWord(Ch(text, p + 8))
           \/ ~IsWord(Ch(text, p + 7))

\* the description test of the block form.  The comment markers hold no
\* newline, so removing them from comment_text and splitting the rest at
\* "\n" is removing them from each comment line.
BlockHasDescription(comment_lines) ==
    \E n \in 1..Len(comment_lines) :
        LET content == Remove(Remove(Remove(comment_lines[n], "/**"), "/*"), "*/")
            cl == StrStrip(LStripStars(StrStrip(content)))
        IN  cl # "" /\ ~StartsWith(cl, "@")

\* BlockDoc reading the closing line of the comment alone
BlockDocEndLineOnly(ls, func_line_idx, i) ==
    IF ~StartsWith(StrStrip(ls[i + 1]), "/*") THEN DocAbsent
    ELSE [exists |-> TRUE,
          has_description |-> BlockHasDescription(<<ls[i + 1]>>),
          documented_params |-> DocumentedParams(ls[i + 1]),
          has_return |-> HasReturnTag(ls[i + 1])]

\* the block form: the comment ending at line i, looked for down to the
\* lookback limit
BlockDoc(ls, func_line_idx, i) ==
    LET starts == {j \in search_start(func_line_idx)..i :
                      StartsWith(StrStrip(ls[j + 1]), "/*")}
    IN  IF starts = {} THEN DocAbsent
        ELSE LET j == CHOOSE x \in starts : \A y \in starts : y <= x
                 comment_lines == SubSeq(ls, j + 1, i + 1)
                 comment_text == JoinLines(comment_lines)
             IN  [exists |-> TRUE,
                  has_description |-> BlockHasDescription(comment_lines),
                  documented_params |-> DocumentedParams(comment_text),
                  has_return |-> HasReturnTag(comment_text)]

\* LineDocAbove with a blank line ending the run
RECURSIVE LineDocAboveStopAtBlank(_, _, _)
LineDocAboveStopAtBlank(ls, func_line_idx, k) ==
    IF k < search_start(func_line_idx) THEN <<>>
    ELSE LET prev_line == StrStrip(ls[k + 1]) IN
         IF StartsWith(prev_line, "///")
         THEN LineDocAboveStopAtBlank(ls, func_line_idx, k - 1) \o <<prev_line>>
         ELSE <<>>

\* the /// lines collected above line k + 1, oldest first
RECURSIVE LineDocAbove(_, _, _)
LineDocAbove(ls, func_line_idx, k) ==
    IF k < search_start(func_line_idx) THEN <<>>
    ELSE LET prev_line == StrStrip(ls[k + 1]) IN
         IF StartsWith(prev_line, "///")
         THEN LineDocAbove(ls, func_line_idx, k - 1) \o <<prev_line>>
         ELSE IF prev_line = ""
              THEN LineDocAbove(ls, func_line_idx, k - 1)
              ELSE <<>>

\* the line form: the /// comment whose last line is line i
LineDoc(ls, func_line_idx, i) ==
    LET doc_lines == LineDocAbove(ls, func_line_idx, i - 1)
                        \o <<StrStrip(ls[i + 1])>>
        comment_text == JoinLines(doc_lines)
    IN  [exists |-> TRUE,
         has_description |-> Len(StrStrip(Remove(comment_text, "///"))) > 5,
         documented_params |-> DocumentedParams(comment_text),
         has_return |-> HasReturnTag(comment_text)]

\* DocScan going on upwards past a line of code
RECURSIVE DocScanPastCode(_, _, _)
DocScanPastCode(ls, func_line_idx, i) ==
    IF i < search_start(func_line_idx) THEN DocAbsent
    ELSE LET line == StrStrip(ls[i + 1]) IN
         IF line = "" THEN DocScanPastCode(ls, func_line_idx, i - 1)
         ELSE IF EndsWith(line, "*/") THEN BlockDoc(ls, func_line_idx, i)
         ELSE IF StartsWith(line, "///") THEN LineDoc(ls, func_line_idx, i)
         ELSE DocScanPastCode(ls, func_line_idx, i - 1)

\* the backward loop of parse_doc_comment, standing at line i
RECURSIVE DocScan(_, _, _)
DocScan(ls, func_line_idx, i) ==
    IF i < search_start(func_line_idx) THEN DocAbsent
    ELSE LET line == StrStrip(ls[i + 1]) IN
         IF line = "" THEN DocScan(ls, func_line_idx, i - 1)
         ELSE IF EndsWith(line, "*/") THEN BlockDoc(ls, func_line_idx, i)
         ELSE IF StartsWith(line, "///") THEN LineDoc(ls, func_line_idx, i)
         ELSE IF ~StartsWith(line, "//") /\ ~StartsWith(line, "*")
              THEN DocAbsent
              ELSE DocScan(ls, func_line_idx, i - 1)

parse_doc_comment(ls, func_line_idx) ==
    DocScan(ls, func_line_idx, func_line_idx - 1)

----------------------------------------------------------------------------
(* extract_function_params, get_return_type, check_raw_char_params.        *)

\* re.search(r"\(([^)]*)\)", line): the positions of its two parentheses
ParamOpen(line) == IndexFrom(line, "(", 1)
ParamClose(line) ==
    IF ParamOpen(line) = 0 THEN 0 ELSE IndexFrom(line, ")", ParamOpen(line) + 1)

\* param_match.group(1)
ParamText(line) == Slice(line, ParamOpen(line) + 1, ParamClose(line) - 1)

\* the comma split that keeps nested parentheses together
RECURSIVE SplitParams(_, _, _, _)
SplitParams(params_str, p, depth, current) ==
    IF p > Len(params_str)
    THEN IF StrStrip(current) # "" THEN <<StrStrip(current)>> ELSE <<>>
    ELSE LET char == Ch(params_str, p) IN
         IF char = "(" THEN
             SplitParams(params_str, p + 1, depth + 1, current \o char)
         ELSE IF char = ")" THEN
             SplitParams(params_str, p + 1, depth - 1, current \o char)
         ELSE IF char = "," /\ depth = 0 THEN
             <<StrStrip(current)>> \o SplitParams(params_str, p + 1, depth, "")
         ELSE SplitParams(params_str, p + 1, depth, current \o char)

\* re.sub(r"\[[^\]]*\]", "", param)
RECURSIVE RemoveBrackets(_, _)
RemoveBrackets(param, p) ==
    IF p > Len(param) THEN ""
    ELSE IF Ch(param, p) = "[" /\ IndexFrom(param, "]", p + 1) > 0
         THEN RemoveBrackets(param, IndexFrom(param, "]", p + 1) + 1)
         ELSE Ch(param, p) \o RemoveBrackets(param, p + 1)

\* the names loop
RECURSIVE ParamNames(_)
ParamNames(params) ==
    IF params = <<>> THEN <<>>
    ELSE LET words == Words(RemoveBrackets(Head(params), 1))
             last == IF words = <<>> THEN ""
                     ELSE LStripStars(words[Len(words)])
         IN  (IF last # "" /\ last # "void" THEN <<last>> ELSE <<>>)
                 \o ParamNames(Tail(params))

extract_function_params(line) ==
    IF ParamClose(line) = 0 THEN <<>>
    ELSE LET params_str == StrStrip(ParamText(line)) IN
         IF params_str = "" \/ params_str = "void" THEN <<>>
         ELSE ParamNames(SplitParams(params_str, 1, 0, ""))

\* the frame of extract_function_params before a call
ParamsStart(line) == [line |-> line, names |-> <<>>]
ParamsIdle == ParamsStart("")

get_return_type(line) ==
    LET open == IndexFrom(line, "(", 1)
        sig == StrStrip(IF open = 0 THEN line ELSE Slice(line, 1, open - 1))
        words == Words(sig)
    IN  IF Len(words) >= 2 THEN JoinSpace(SubSeq(words, 1, Len(words) - 1))
        ELSE ""

check_raw_char_params(line) ==
    IF ParamClose(line) = 0 THEN FALSE
    ELSE LET params == ParamText(line) IN
         IF Contains(params, "argv") \/ Contains(params, "argc") THEN FALSE
         ELSE \E p \in 1..Len(params) :
                  /\ HasAt(params, p, "char")
                  /\ ~(HasAt(params, p - 6, "const") /\ IsSpace(Ch(params, p - 1)))
                  /\ Ch(params, SkipSpace(params, p + 4)) = "*"

----------------------------------------------------------------------------
(* check_manual_tagged_unions.                                             *)

\* re.search(r"\benum\s*\{[^}]+\}\s*(kind|tag|type)\s*;", line)
TaggedUnionLine(line) ==
    \E p \in 1..Len(line) :
        LET open == SkipSpace(line, p + 4)
            close == IndexFrom(line, "}", open + 1)
            field == SkipSpace(line, close + 1)
        IN  /\ HasAt(line, p, "enum")
            /\ WordStartsAt(line, p)
            /\ Ch(line, open) = "{"
            /\ close > open + 1
            /\ \E w \in {"kind", "tag", "type"} :
                  /\ HasAt(line, field, w)
                  /\ Ch(line, SkipSpace(line, field + Len(w))) = ";"

\* "FERN_STYLE: allow(no-tagged-union)" in content: the text holds no
\* newline, so it lies in content exactly when it lies in one of the lines
TaggedUnionAllowed(ls) ==
    \E n \in 1..Len(ls) : Contains(ls[n], "FERN_STYLE: allow(no-tagged-union)")

\* TaggedUnionViolation with severity left at the dataclass default
TaggedUnionViolationDefaultSeverity(n) ==
    [line |-> n, function |-> "", rule |-> "no-tagged-union",
     message |-> "Manual tagged union detected - use Datatype99 instead",
     severity |-> "error"]

TaggedUnionViolation(n) ==
    [line |-> n, function |-> "", rule |-> "no-tagged-union",
     message |-> "Manual tagged union detected - use Datatype99 instead",
     severity |-> "warning"]

\* the members of a set of line numbers in increasing order
Ascending(set) ==
    [k \in 1..Cardinality(set) |->
        CHOOSE n \in set : Cardinality({m \in set : m <= n}) = k]

check_manual_tagged_unions(ls) ==
    IF TaggedUnionAllowed(ls) THEN <<>>
    ELSE LET hits == Ascending({n \in 1..Len(ls) : TaggedUnionLine(ls[n])}) IN
         [k \in 1..Len(hits) |-> TaggedUnionViolation(hits[k])]

----------------------------------------------------------------------------
(* extract_functions.  scan holds its locals; i and j are the source's     *)
(* 0-based line indices, start_line and end_line are 1-based.              *)

ScanStart ==
    [i |-> 0, j |-> 0, brace_count |-> 0, func_name |-> "", start_line |-> 0,
     doc_comment |-> DocAbsent, param_names |-> <<>>, return_type |-> "",
     has_raw_char |-> FALSE, assertion_count |-> 0,
     has_unbounded_loop |-> FALSE, has_malloc |-> FALSE, has_free |-> FALSE,
     allowed_rules |-> {}, functions |-> <<>>]

\* the line at index i is looked at as a signature and matches
IsSignature(ls, s) ==
    /\ ~IsDirectiveOrComment(ls[s.i + 1])
    /\ FuncPatternMatches(ls[s.i + 1])

\* i += 1
SkipCandidate(s) == [s EXCEPT !.i = @ + 1]

\* OpenFunction with allowed_rules = set() left out: the set of the previous
\* function is carried over
OpenFunctionKeepAllowed(ls, s) ==
    LET line == ls[s.i + 1] IN
    [s EXCEPT !.func_name = FuncName(line),
              !.start_line = s.i + 1,
              !.doc_comment = parse_doc_comment(ls, s.i),
              !.param_names = extract_function_params(line),
              !.return_type = get_return_type(line),
              !.has_raw_char = check_raw_char_params(line),
              !.brace_count = 1,
              !.j = s.i + 1,
              !.assertion_count = 0,
              !.has_unbounded_loop = FALSE,
              !.has_malloc = FALSE,
              !.has_free = FALSE]

\* the signature at index i matched: the locals set before the body loop
OpenFunction(ls, s) ==
    LET line == ls[s.i + 1] IN
    [s EXCEPT !.func_name = FuncName(line),
              !.start_line = s.i + 1,
              !.doc_comment = parse_doc_comment(ls, s.i),
              !.param_names = extract_function_params(line),
              !.return_type = get_return_type(line),
              !.has_raw_char = check_raw_char_params(line),
              !.brace_count = 1,
              !.j = s.i + 1,
              !.assertion_count = 0,
              !.has_unbounded_loop = FALSE,
              !.has_malloc = FALSE,
              !.has_free = FALSE,
              !.allowed_rules = {}]

\* the loop test as brace_count != 0
InBodyUntilZero(ls, s) == s.j < Len(ls) /\ s.brace_count # 0

\* while j < len(lines) and brace_count > 0
InBody(ls, s) == s.j < Len(ls) /\ s.brace_count > 0

\* BodyStep counting the braces of the line as it is, literals included
BodyStepRawBraces(ls, s) ==
    LET current_line == ls[s.j + 1] IN
    [s EXCEPT !.brace_count = @ + Count(current_line, "{")
                                - Count(current_line, "}"),
              !.allowed_rules = @ \cup AllowedOnLine(current_line),
              !.assertion_count =
                  IF HasAssert(current_line) THEN @ + 1 ELSE @,
              !.has_unbounded_loop = @ \/ LooksUnbounded(current_line),
              !.has_malloc = @ \/ HasMalloc(current_line),
              !.has_free = @ \/ HasFree(current_line),
              !.j = @ + 1]

\* one iteration of the body loop, on line j
BodyStep(ls, s) ==
    LET current_line == ls[s.j + 1]
        stripped_line == strip_string_literals(current_line)
    IN  [s EXCEPT !.brace_count = @ + Count(stripped_line, "{")
                                    - Count(stripped_line, "}"),
                  !.allowed_rules = @ \cup AllowedOnLine(current_line),
                  !.assertion_count =
                      IF HasAssert(current_line) THEN @ + 1 ELSE @,
                  !.has_unbounded_loop = @ \/ LooksUnbounded(current_line),
                  !.has_malloc = @ \/ HasMalloc(current_line),
                  !.has_free = @ \/ HasFree(current_line),
                  !.j = @ + 1]

\* the Function record appended when the body loop has ended
FunctionRecord(ls, s) ==
    [name |-> s.func_name,
     start_line |-> s.start_line,
     end_line |-> s.j,
     assertion_count |-> s.assertion_count,
     has_unbounded_loop |-> s.has_unbounded_loop,
     has_malloc |-> s.has_malloc,
     has_free |-> s.has_free,
     has_doc_comment |-> s.doc_comment.exists /\ s.doc_comment.has_description,
     has_raw_char_params |-> s.has_raw_char,
     doc_comment |-> s.doc_comment,
     param_names |-> s.param_names,
     return_type |-> s.return_type,
     allowed_rules |-> s.allowed_rules \cup AllowedOnLine(ls[s.i + 1])]

\* CloseFunction resuming at the line after the signature, i += 1, in place
\* of i = j
CloseFunctionNoJump(ls, s) ==
    [s EXCEPT !.allowed_rules = @ \cup AllowedOnLine(ls[s.i + 1]),
              !.functions = Append(@, FunctionRecord(ls, s)),
              !.i = s.i + 1]

\* after the body loop: the signature line's annotation, the append, i = j
CloseFunction(ls, s) ==
    [s EXCEPT !.allowed_rules = @ \cup AllowedOnLine(ls[s.i + 1]),
              !.functions = Append(@, FunctionRecord(ls, s)),
              !.i = s.j]

\* extract_functions as a function of the lines: the steps above, run to
\* the end
RECURSIVE ExtractRun(_, _, _)
ExtractRun(ls, s, in_body) ==
    IF in_body
    THEN IF InBody(ls, s) THEN ExtractRun(ls, BodyStep(ls, s), TRUE)
         ELSE ExtractRun(ls, CloseFunction(ls, s), FALSE)
    ELSE IF s.i < Len(ls)
         THEN IF IsSignature(ls, s) THEN ExtractRun(ls, OpenFunction(ls, s), TRUE)
              ELSE ExtractRun(ls, SkipCandidate(s), FALSE)
         ELSE s.functions

extract_functions(ls) == ExtractRun(ls, ScanStart, FALSE)

----------------------------------------------------------------------------
(* The rules of check_file for one Function record.                        *)

MinAssertions == 2
MaxFunctionLines == 70

\* line_count counting the signature line too
line_countInclusive(func) == func.end_line - func.start_line + 1

line_count(func) == func.end_line - func.start_line

\* str(n) of a non-negative int, as the f-strings format it
RECURSIVE Str(_)
Str(n) ==
    IF n < 10 THEN Ch("0123456789", n + 1)
    ELSE Str(n \div 10) \o Ch("0123456789", (n % 10) + 1)

\* the printable characters in code point order, but for the backquote
Ascii ==
    " !\"#$%&'()*+,-./0123456789:;<=>?@ABCDEFGHIJKLMNOPQRSTUVWXYZ[\\]^_abcdefghijklmnopqrstuvwxyz{|}~"

\* the rank of c in that order: ord(c) up to an increasing renumbering
Ord(c) == CHOOSE k \in 1..Len(Ascii) : Ch(Ascii, k) = c

\* a < b for two str
RECURSIVE StrLess(_, _)
StrLess(a, b) ==
    IF a = "" THEN b # ""
    ELSE IF b = "" THEN FALSE
    ELSE IF Ch(a, 1) = Ch(b, 1)
         THEN StrLess(Slice(a, 2, Len(a)), Slice(b, 2, Len(b)))
         ELSE Ord(Ch(a, 1)) < Ord(Ch(b, 1))

\* sorted(names) of a set of str
Sorted(names) ==
    [k \in 1..Cardinality(names) |->
        CHOOSE x \in names :
            Cardinality({y \in names : StrLess(y, x)}) = k - 1]

\* ", ".join(names)
RECURSIVE JoinComma(_)
JoinComma(names) ==
    IF names = <<>> THEN ""
    ELSE IF Len(names) = 1 THEN names[1]
    ELSE names[1] \o ", " \o JoinComma(Tail(names))

\* set(func.param_names) - doc.documented_params
missing_params(func) ==
    {func.param_names[n] : n \in 1..Len(func.param_names)}
        \ func.doc_comment.documented_params

\* the message= argument of the Violation of each rule
Message(func, rule) ==
    CASE rule = "assertion-density" ->
            Str(func.assertion_count) \o " assertions (need 2+)"
      [] rule = "function-length" -> Str(line_count(func)) \o " lines (max 70)"
      [] rule = "no-malloc" -> "Uses malloc() - use arena allocation instead"
      [] rule = "no-free" -> "Uses free() - use arena allocation instead"
      [] rule = "bounded-loops" -> "Unbounded loop detected - add explicit limit"
      [] rule = "doc-comment" ->
            "Missing doc comment (add /** ... */ before function)"
      [] rule = "doc-params" ->
            "Missing @param for: " \o JoinComma(Sorted(missing_params(func)))
      [] rule = "doc-return" -> "Missing @return for non-void function"
      [] rule = "no-raw-char" ->
            "Raw char* parameter - use sds or const char* instead"

Violation(func, rule, severity) ==
    [line |-> func.start_line, function |-> func.name, rule |-> rule,
     message |-> Message(func, rule), severity |-> severity]

\* file=filepath, the argument every Violation of check_file is built with
InFile(filepath, vs) ==
    [k \in 1..Len(vs) |->
        [file |-> filepath, line |-> vs[k].line, function |-> vs[k].function,
         rule |-> vs[k].rule, message |-> vs[k].message,
         severity |-> vs[k].severity]]

\* the Violation of a failed read; e is str(e) of the exception
ReadErrorViolation(e) ==
    [line |-> 0, function |-> "", rule |-> "read-error",
     message |-> "Could not read file: " \o e, severity |-> "error"]

\* the assertion test as <= 2
AssertionDensityRuleAtMost(func) ==
    IF func.assertion_count <= MinAssertions
       /\ "assertion-density" \notin func.allowed_rules
    THEN <<Violation(func, "assertion-density", "error")>> ELSE <<>>

AssertionDensityRule(func) ==
    IF func.assertion_count < MinAssertions
       /\ "assertion-density" \notin func.allowed_rules
    THEN <<Violation(func, "assertion-density", "error")>> ELSE <<>>

FunctionLengthRule(func) ==
    IF line_count(func) > MaxFunctionLines
       /\ "function-length" \notin func.allowed_rules
    THEN <<Violation(func, "function-length", "error")>> ELSE <<>>

NoMallocRule(func) ==
    IF func.has_malloc /\ "no-malloc" \notin func.allowed_rules
    THEN <<Violation(func, "no-malloc", "error")>> ELSE <<>>

\* NoFreeRule reporting under the rule id of malloc
NoFreeRuleAsMalloc(func) ==
    IF func.has_free /\ "no-free" \notin func.allowed_rules
    THEN <<Violation(func, "no-malloc", "error")>> ELSE <<>>

NoFreeRule(func) ==
    IF func.has_free /\ "no-free" \notin func.allowed_rules
    THEN <<Violation(func, "no-free", "error")>> ELSE <<>>

BoundedLoopsRule(func) ==
    IF func.has_unbounded_loop /\ "bounded-loops" \notin func.allowed_rules
    THEN <<Violation(func, "bounded-loops", "warning")>> ELSE <<>>

DocParamsRule(func) ==
    IF missing_params(func) # {} /\ "doc-params" \notin func.allowed_rules
    THEN <<Violation(func, "doc-params", "warning")>> ELSE <<>>

DocReturnRule(func) ==
    IF /\ func.return_type # ""
       /\ func.return_type # "void"
       /\ "doc-return" \notin func.allowed_rules
       /\ ~func.doc_comment.has_return
    THEN <<Violation(func, "doc-return", "warning")>> ELSE <<>>

\* the documentation rules with the style checks not tied to an existing
\* doc comment
DocRulesAlwaysStyle(func) ==
    (IF ~func.has_doc_comment /\ "doc-comment" \notin func.allowed_rules
     THEN <<Violation(func, "doc-comment", "warning")>> ELSE <<>>)
        \o (IF "doc-style" \notin func.allowed_rules
            THEN DocParamsRule(func) \o DocReturnRule(func)
            ELSE <<>>)

\* the documentation rules with doc-style suppressing doc-params alone
DocRulesStyleKeyParamsOnly(func) ==
    IF ~func.has_doc_comment /\ "doc-comment" \notin func.allowed_rules
    THEN <<Violation(func, "doc-comment", "warning")>>
    ELSE IF func.has_doc_comment
         THEN (IF "doc-style" \notin func.allowed_rules
               THEN DocParamsRule(func) ELSE <<>>) \o DocReturnRule(func)
         ELSE <<>>

DocRules(func) ==
    IF ~func.has_doc_comment /\ "doc-comment" \notin func.allowed_rules
    THEN <<Violation(func, "doc-comment", "warning")>>
    ELSE IF func.has_doc_comment /\ "doc-style" \notin func.allowed_rules
         THEN DocParamsRule(func) \o DocReturnRule(func)
         ELSE <<>>

NoRawCharRule(func) ==
    IF func.has_raw_char_params /\ "no-raw-char" \notin func.allowed_rules
    THEN <<Violation(func, "no-raw-char", "warning")>> ELSE <<>>

\* FunctionRules with the raw char rule evaluated before the documentation
\* rules
FunctionRulesRawCharFirst(func) ==
    AssertionDensityRule(func) \o FunctionLengthRule(func)
        \o NoMallocRule(func) \o NoFreeRule(func) \o BoundedLoopsRule(func)
        \o NoRawCharRule(func) \o DocRules(func)

\* one iteration of "for func in functions"
FunctionRules(func) ==
    AssertionDensityRule(func) \o FunctionLengthRule(func)
        \o NoMallocRule(func) \o NoFreeRule(func) \o BoundedLoopsRule(func)
        \o DocRules(func) \o NoRawCharRule(func)

\* the loop "for func in functions", run to the end
RECURSIVE CheckFunctions(_)
CheckFunctions(fs) ==
    IF fs = <<>> THEN <<>>
    ELSE FunctionRules(Head(fs)) \o CheckFunctions(Tail(fs))

\* check_file as a function of the path and of the lines read
check_file(filepath, ls) ==
    InFile(filepath,
           check_manual_tagged_unions(ls) \o CheckFunctions(extract_functions(ls)))

----------------------------------------------------------------------------
(* check_file on one file, step by step.                                   *)

\* str(e) of the exceptions read_text raises
ReadExceptions == {"Permission denied", "invalid start byte"}

\* the frame of main while check_file is looked at alone, on one file
MainIdle ==
    [paths |-> <<>>, fs |-> <<>>, strict |-> FALSE, summary |-> FALSE,
     all_violations |-> <<>>, files_checked |-> 0, filepath |-> "a.c",
     printed |-> "", exit_code |-> -1]

InitCheck(files) ==
    /\ main = MainIdle
    /\ strip = StripStart("")
    /\ extract_params = ParamsIdle
    /\ lines \in files
    /\ pc = "check_file"
    /\ scan = ScanStart
    /\ functions = <<>>
    /\ func_idx = 0
    /\ violations = <<>>

\* ReadError without the return: the checks go on after the failed read
ReadErrorGoesOn ==
    /\ pc = "check_file"
    /\ \E e \in ReadExceptions :
           violations' = InFile(main.filepath, <<ReadErrorViolation(e)>>)
    /\ scan' = ScanStart
    /\ pc' = "scan"
    /\ UNCHANGED <<extract_params, main, strip, lines, functions, func_idx>>

\* filepath.read_text() raises: the one read-error violation is returned
ReadError ==
    /\ pc = "check_file"
    /\ \E e \in ReadExceptions :
           violations' = InFile(main.filepath, <<ReadErrorViolation(e)>>)
    /\ pc' = "read_error"
    /\ UNCHANGED <<extract_params, main, strip, lines, scan, functions, func_idx>>

\* FileLevelChecks with extract_functions going on from the locals its
\* previous call left
FileLevelChecksKeepScan ==
    /\ pc = "check_file"
    /\ violations' =
           violations \o InFile(main.filepath, check_manual_tagged_unions(lines))
    /\ pc' = "scan"
    /\ UNCHANGED <<extract_params, main, strip, lines, scan, functions, func_idx>>

\* the file is read; the file-level check runs; extract_functions is entered
\* with its locals fresh
FileLevelChecks ==
    /\ pc = "check_file"
    /\ violations' =
           violations \o InFile(main.filepath, check_manual_tagged_unions(lines))
    /\ scan' = ScanStart
    /\ pc' = "scan"
    /\ UNCHANGED <<extract_params, main, strip, lines, functions, func_idx>>

\* a preprocessor directive or a // comment is no candidate
ScanSkip ==
    /\ pc = "scan"
    /\ scan.i < Len(lines)
    /\ IsDirectiveOrComment(lines[scan.i + 1])
    /\ scan' = SkipCandidate(scan)
    /\ UNCHANGED <<extract_params, main, strip, lines, pc, functions, func_idx, violations>>

\* func_pattern does not match the line
ScanNoMatch ==
    /\ pc = "scan"
    /\ scan.i < Len(lines)
    /\ ~IsDirectiveOrComment(lines[scan.i + 1])
    /\ ~FuncPatternMatches(lines[scan.i + 1])
    /\ scan' = SkipCandidate(scan)
    /\ UNCHANGED <<extract_params, main, strip, lines, pc, functions, func_idx, violations>>

\* func_pattern matches the line: a function starts
ScanSignature ==
    /\ pc = "scan"
    /\ scan.i < Len(lines)
    /\ IsSignature(lines, scan)
    /\ scan' = OpenFunction(lines, scan)
    /\ pc' = "body"
    /\ UNCHANGED <<extract_params, main, strip, lines, functions, func_idx, violations>>

BodyLine ==
    /\ pc = "body"
    /\ InBody(lines, scan)
    /\ scan' = BodyStep(lines, scan)
    /\ UNCHANGED <<extract_params, main, strip, lines, pc, functions, func_idx, violations>>

EndFunction ==
    /\ pc = "body"
    /\ ~InBody(lines, scan)
    /\ scan' = CloseFunction(lines, scan)
    /\ pc' = "scan"
    /\ UNCHANGED <<extract_params, main, strip, lines, functions, func_idx, violations>>

\* extract_functions returns its list to check_file
ScanReturn ==
    /\ pc = "scan"
    /\ ~(scan.i < Len(lines))
    /\ functions' = scan.functions
    /\ func_idx' = 0
    /\ pc' = "rules"
    /\ UNCHANGED <<extract_params, main, strip, lines, scan, violations>>

CheckFunction ==
    /\ pc = "rules"
    /\ func_idx < Len(functions)
    /\ violations' =
           violations \o InFile(main.filepath, FunctionRules(functions[func_idx + 1]))
    /\ func_idx' = func_idx + 1
    /\ UNCHANGED <<extract_params, main, strip, lines, pc, scan, functions>>

CheckReturn ==
    /\ pc = "rules"
    /\ ~(func_idx < Len(functions))
    /\ pc' = "done"
    /\ UNCHANGED <<extract_params, main, strip, lines, scan, functions, func_idx, violations>>

NextCheck ==
    \/ ReadError
    \/ FileLevelChecks
    \/ ScanSkip
    \/ ScanNoMatch
    \/ ScanSignature
    \/ BodyLine
    \/ EndFunction
    \/ ScanReturn
    \/ CheckFunction
    \/ CheckReturn

----------------------------------------------------------------------------
(* main: the loop over the files find_c_files yields, and the exit code.   *)
(* main.paths is the sequence of paths in discovery order (a path given    *)
(* twice on the command line is yielded twice), main.fs the content        *)
(* read_text returns for each path.                                        *)

MainStart(paths, fs, strict, summary) ==
    [paths |-> paths, fs |-> fs, strict |-> strict, summary |-> summary,
     all_violations |-> <<>>, files_checked |-> 0, filepath |-> "",
     printed |-> "", exit_code |-> -1]

InitMain(path_lists, tables) ==
    /\ main \in {MainStart(paths, fs, strict, summary) :
                    paths \in path_lists, fs \in tables,
                    strict \in BOOLEAN, summary \in BOOLEAN}
    /\ strip = StripStart("")
    /\ extract_params = ParamsIdle
    /\ lines = <<>>
    /\ pc = "main"
    /\ scan = ScanStart
    /\ functions = <<>>
    /\ func_idx = 0
    /\ violations = <<>>

\* sum(1 for v in all_violations if v.severity == severity)
CountSeverity(vs, severity) ==
    Cardinality({k \in 1..Len(vs) : vs[k].severity = severity})

\* ExitCode with warnings failing the run whether --strict is given or not
ExitCodeAnyViolation(strict, vs) ==
    IF CountSeverity(vs, "error") + CountSeverity(vs, "warning") > 0
    THEN 1 ELSE 0

\* the return value of main once files were checked
ExitCode(strict, vs) ==
    LET errors == CountSeverity(vs, "error")
        warnings == CountSeverity(vs, "warning")
    IN  IF strict THEN (IF errors + warnings > 0 THEN 1 ELSE 0)
        ELSE (IF errors > 0 THEN 1 ELSE 0)

\* MainNextFile with check_file appending to the list of its previous call
MainNextFileKeepList ==
    /\ pc = "main"
    /\ main.files_checked < Len(main.paths)
    /\ LET filepath == main.paths[main.files_checked + 1] IN
           /\ main' = [main EXCEPT !.files_checked = @ + 1,
                                    !.filepath = filepath]
           /\ lines' = main.fs[filepath]
    /\ pc' = "check_file"
    /\ UNCHANGED <<extract_params, strip, scan, functions, func_idx, violations>>

\* the next file of the loop: files_checked += 1 and check_file is entered
\* with violations = []; lines is the content its read will find
MainNextFile ==
    /\ pc = "main"
    /\ main.files_checked < Len(main.paths)
    /\ LET filepath == main.paths[main.files_checked + 1] IN
           /\ main' = [main EXCEPT !.files_checked = @ + 1,
                                    !.filepath = filepath]
           /\ lines' = main.fs[filepath]
    /\ violations' = <<>>
    /\ pc' = "check_file"
    /\ UNCHANGED <<extract_params, strip, scan, functions, func_idx>>

\* check_file has returned: all_violations.extend(violations)
MainCollect ==
    /\ pc \in {"done", "read_error"}
    /\ main' = [main EXCEPT !.all_violations = @ \o violations]
    /\ pc' = "main"
    /\ UNCHANGED <<extract_params, strip, lines, scan, functions, func_idx, violations>>

\* files_checked == 0: return 0
MainNoFiles ==
    /\ pc = "main"
    /\ ~(main.files_checked < Len(main.paths))
    /\ main.files_checked = 0
    /\ main' = [main EXCEPT !.printed = "No .c files found to check",
                             !.exit_code = 0]
    /\ pc' = "exit"
    /\ UNCHANGED <<extract_params, strip, lines, scan, functions, func_idx, violations>>

\* the report, in full or as a summary, and the exit code
MainExit ==
    /\ pc = "main"
    /\ ~(main.files_checked < Len(main.paths))
    /\ main.files_checked # 0
    /\ main' = [main EXCEPT
                    !.printed = IF main.summary THEN "summary" ELSE "violations",
                    !.exit_code = ExitCode(main.strict, main.all_violations)]
    /\ pc' = "exit"
    /\ UNCHANGED <<extract_params, strip, lines, scan, functions, func_idx, violations>>

NextMain ==
    \/ MainNextFile
    \/ NextCheck
    \/ MainCollect
    \/ MainNoFiles
    \/ MainExit

----------------------------------------------------------------------------
(* The stripper alone, on every line over StripAlphabet of at most         *)
(* MaxStripLen characters.                                                 *)

MaxStripLen == 5

StripAlphabet == {"\"", "'", "\\", "{", "a"}

RECURSIVE StringsOf(_, _)
StringsOf(alphabet, n) ==
    IF n = 0 THEN {""}
    ELSE LET shorter == StringsOf(alphabet, n - 1) IN
         shorter \cup {s \o c : s \in {t \in shorter : Len(t) = n - 1},
                                c \in alphabet}

StripInputs == StringsOf(StripAlphabet, MaxStripLen)

InitStrip ==
    /\ main = MainIdle
    /\ strip \in {StripStart(l) : l \in StripInputs}
    /\ extract_params = ParamsIdle
    /\ lines = <<>>
    /\ pc = "strip"
    /\ scan = ScanStart
    /\ functions = <<>>
    /\ func_idx = 0
    /\ violations = <<>>

StripLoop ==
    /\ pc = "strip"
    /\ ~StripDone(strip)
    /\ strip' = StripStep(strip)
    /\ UNCHANGED <<extract_params, main, lines, pc, scan, functions, func_idx, violations>>

StripReturn ==
    /\ pc = "strip"
    /\ StripDone(strip)
    /\ pc' = "stripped"
    /\ UNCHANGED <<extract_params, main, strip, lines, scan, functions, func_idx, violations>>

NextStrip == StripLoop \/ StripReturn

SpecStrip == InitStrip /\ [][NextStrip]_vars

----------------------------------------------------------------------------
(* check_file on every file of at most MaxScopeLines lines made of two     *)
(* signatures, a closing brace, a malloc call and a no-malloc annotation.  *)

\* the files of 1..n lines over a set of lines
FilesOver(lib, n) == UNION {[1..m -> lib] : m \in 1..n}

MaxScopeLines == 5

ScopeLines ==
    {"int a() {", "int b() {", "}", "malloc(1);",
     "// FERN_STYLE: allow(no-malloc)"}

InitScope == InitCheck(FilesOver(ScopeLines, MaxScopeLines))

SpecScope == InitScope /\ [][NextCheck]_vars

----------------------------------------------------------------------------
(* check_file on every file of at most MaxBraceLines lines made of a       *)
(* signature, braces outside literals, braces inside a string and a char   *)
(* literal, and a comment holding a brace.                                 *)

MaxBraceLines == 4

BraceLines ==
    {"int a() {", "}", "}}", "if (x) {", "assert(c != '{');", "s = \"}\";",
     "// }"}

InitBrace == InitCheck(FilesOver(BraceLines, MaxBraceLines))

SpecBrace == InitBrace /\ [][NextCheck]_vars

----------------------------------------------------------------------------
(* check_file on every file of at most MaxAssertLines lines made of a      *)
(* signature, a closing brace, lines with one and with two assert calls,   *)
(* and an assertion-density annotation.                                    *)

MaxAssertLines == 5

AssertLines ==
    {"int a() {", "}", "assert(x);", "assert(a); assert(b);",
     "// FERN_STYLE: allow(assertion-density)"}

InitAssert == InitCheck(FilesOver(AssertLines, MaxAssertLines))

SpecAssert == InitAssert /\ [][NextCheck]_vars

----------------------------------------------------------------------------
(* check_file on files with one long function: a signature followed by n   *)
(* lines, n within LengthSlack of the limit of 70, the last of them a      *)
(* closing brace or not, the first of them a function-length annotation    *)
(* or not, after nothing, a comment or a declaration.                      *)

LengthSlack == 2

Repeat(line, n) == [k \in 1..n |-> line]

LengthFiles ==
    {prefix \o <<"int a() {">> \o first \o Repeat("x;", n - 2) \o last :
        prefix \in {<<>>, <<"// c">>, <<"int y;">>},
        first \in {<<"x;">>, <<"// FERN_STYLE: allow(function-length)">>},
        last \in {<<"}">>, <<"x;">>},
        n \in (MaxFunctionLines - LengthSlack)..(MaxFunctionLines + LengthSlack)}

InitLength == InitCheck(LengthFiles)

SpecLength == InitLength /\ [][NextCheck]_vars

----------------------------------------------------------------------------
(* check_file on the end-to-end scenario: one function of two parameters,  *)
(* no assertion, a body of ScenarioBody lines one of which calls malloc,   *)
(* and no comment before it.                                               *)

ScenarioBody == 10

ScenarioFiles ==
    {prefix \o <<sig>> \o Repeat("x;", m - 1) \o <<"p = malloc(n);">>
            \o Repeat("x;", ScenarioBody - m) \o <<"}">> :
        prefix \in {<<>>, <<"">>, <<"int y;">>, <<"#include <a.h>">>},
        sig \in {"int f(int a, int b) {", "static int g(int *p, int n) {"},
        m \in 1..ScenarioBody}

InitScenario == InitCheck(ScenarioFiles)

SpecScenario == InitScenario /\ [][NextCheck]_vars

----------------------------------------------------------------------------
(* check_file on every file of at most MaxTaggedLines lines made of a      *)
(* struct opening, a tagged enum member, a signature, a closing brace and  *)
(* a no-tagged-union annotation.                                           *)

MaxTaggedLines == 5

TaggedLines ==
    {"struct s {", "enum { A, B } kind;", "int a() {", "}",
     "// FERN_STYLE: allow(no-tagged-union)"}

InitTagged == InitCheck(FilesOver(TaggedLines, MaxTaggedLines))

SpecTagged == InitTagged /\ [][NextCheck]_vars

----------------------------------------------------------------------------
(* check_file on one documented function: a block comment of one line, of  *)
(* three lines, or of a description, n filler lines and the two tags, n    *)
(* small or within DocSlack of the lookback limit; complete, or lacking    *)
(* the description, the @param tag or the @return tag; followed by a blank *)
(* line or not; before a signature with one parameter x and a body that   *)
(* holds a doc-style annotation, a doc-comment annotation or neither.      *)

DocSlack == 2

DocFillers ==
    (0..DocSlack) \cup ((DocLookback - 5 - DocSlack)..(DocLookback - 5 + DocSlack))

DocBlocks ==
    {<<"/** Does X. @param x d @return d */">>,
     <<"/** Does X.", "@param x description", "@return description */">>,
     <<"/** Does X.", " * @param x d */">>,
     <<"/** Does X.", " * @return d */">>,
     <<"/**", " * @param x d", " * @return d */">>}
        \cup {<<"/**", " * Does X.">> \o Repeat(" *", n)
                  \o <<" * @param x d", " * @return d", " */">> :
                n \in DocFillers}

DocFiles ==
    {prefix \o block \o gap \o <<sig, body, "}">> :
        prefix \in {<<>>, <<"int y;">>, <<"#include <a.h>">>},
        block \in DocBlocks \cup {<<>>},
        body \in {"return x;", "// FERN_STYLE: allow(doc-style)",
                  "// FERN_STYLE: allow(doc-comment)"},
        gap \in {<<>>, <<"">>},
        sig \in {"int f(int x) {", "static int g(int *x) {",
                 "void h(int x) {"}}

InitDoc == InitCheck(DocFiles)

SpecDoc == InitDoc /\ [][NextCheck]_vars

----------------------------------------------------------------------------
(* main on every sequence of at most MaxFiles paths out of two, each path  *)
(* holding one of four contents: nothing to report, a warning only, a      *)
(* function with errors, a documented function with two undocumented       *)
(* parameters.                                                             *)

MaxFiles == 2

MainPaths == {"a.c", "b.c"}

MainContents ==
    {<<"int y;">>,
     <<"// tags", "enum { A, B } kind;">>,
     <<"int a() {", "p = malloc(n);", "}">>,
     <<"/** D. */", "int f(int b, int a) {", "assert(a);", "assert(b);", "}">>}

PathLists == UNION {[1..n -> MainPaths] : n \in 0..MaxFiles}

InitFiles == InitMain(PathLists, [MainPaths -> MainContents])

SpecMain == InitFiles /\ [][NextMain]_vars

----------------------------------------------------------------------------
(* check_file on every file of at most MaxRuleLines lines made of a        *)
(* description-only /// comment, a signature with a raw char parameter, a  *)
(* line calling malloc and free, an unbounded loop, a closing brace and a  *)
(* tagged enum member.                                                     *)

MaxRuleLines == 4

RuleLines ==
    {"/// Describes a.", "int a(char *s) {", "p = malloc(1); free(p);",
     "while (1) {", "}", "enum { A, B } kind;"}

InitRules == InitCheck(FilesOver(RuleLines, MaxRuleLines))

SpecRules == InitRules /\ [][NextCheck]_vars

----------------------------------------------------------------------------
(* check_file on every file of at most MaxOneLineLines lines made of a     *)
(* complete one-line function definition, a signature ending at its brace, *)
(* a statement, a closing brace and a comment.                             *)

MaxOneLineLines == 4

OneLineLines ==
    {"int d(void) { return 1; }", "int e(char *s) {", "return 0;", "}",
     "// note"}

InitOneLine == InitCheck(FilesOver(OneLineLines, MaxOneLineLines))

SpecOneLine == InitOneLine /\ [][NextCheck]_vars

----------------------------------------------------------------------------
(* check_file on every file of at most MaxLiteralLines lines made of a     *)
(* signature, a closing brace, a call of malloc, statements holding the    *)
(* text of a call or of a loop inside a string literal only, and a         *)
(* comment.                                                                *)

MaxLiteralLines == 4

LiteralLines ==
    {"int a() {", "}", "malloc(1);", "s = \"free(p)\";",
     "s = \"assert(x) while(1)\";", "// note"}

InitLiteral == InitCheck(FilesOver(LiteralLines, MaxLiteralLines))

SpecLiteral == InitLiteral /\ [][NextCheck]_vars

----------------------------------------------------------------------------
(* check_file on every file of at most MaxLoopLines lines made of a        *)
(* signature, a closing brace, while loops bounded by a comparison (one    *)
(* with a call in its condition), a while loop on a bare name, an endless  *)
(* for loop and a comment.                                                 *)

MaxLoopLines == 4

LoopLines ==
    {"int a() {", "}", "while (f(i) < n) i++;", "while (i < n) i++;",
     "while (n) n--;", "for (;;) x();", "// note"}

InitLoop == InitCheck(FilesOver(LoopLines, MaxLoopLines))

SpecLoop == InitLoop /\ [][NextCheck]_vars

----------------------------------------------------------------------------
(* check_file on every file made of an optional declaration, an optional   *)
(* line-form doc comment with or without a @return tag, a signature        *)
(* returning void or int, bare or behind static or static inline, at most  *)
(* MaxVoidBody body lines and the closing brace.                           *)

MaxVoidBody == 1

VoidSignatures ==
    {"void f(void) {", "static void f(void) {", "static inline void f(void) {",
     "int f(void) {", "static int f(void) {"}

VoidFiles ==
    {prefix \o doc \o <<sig>> \o Repeat("x();", m) \o <<"}">> :
        prefix \in {<<>>, <<"int y;">>},
        doc \in {<<>>, <<"/// Does f.">>, <<"/// Does f.", "/// @return d">>},
        sig \in VoidSignatures,
        m \in 0..MaxVoidBody}

InitVoid == InitCheck(VoidFiles)

SpecVoid == InitVoid /\ [][NextCheck]_vars

----------------------------------------------------------------------------
(* check_file on every file made of an optional upper run of one or two    *)
(* /// lines, a separator (nothing, up to MaxGap blank lines, a            *)
(* declaration or a plain comment), a lower /// line, an optional blank    *)
(* line, a signature and its closing brace.                                *)

MaxGap == 2

LineDocUppers ==
    {<<>>, <<"/// Describes f.">>, <<"/// @param x d">>, <<"/// @return d">>,
     <<"/// Describes f.", "/// @param x d">>}

LineDocSeparators ==
    {Repeat("", m) : m \in 0..MaxGap} \cup {<<"int y;">>, <<"// note">>}

LineDocFiles ==
    {upper \o sep \o <<lower>> \o gap \o <<"int f(int x) {", "}">> :
        upper \in LineDocUppers,
        sep \in LineDocSeparators,
        lower \in {"///", "/// f", "/// Does f."},
        gap \in {<<>>, <<"">>}}

InitLineDoc == InitCheck(LineDocFiles)

SpecLineDoc == InitLineDoc /\ [][NextCheck]_vars

----------------------------------------------------------------------------
(* check_file on every file made of an optional comment opener (a          *)
(* one-line comment, an opening line, or an opening line further than the  *)
(* lookback above the signature), at most MaxBetween lines in between (a   *)
(* declaration, a continuation line, a blank line or a plain comment), an  *)
(* optional last line (a terminator, a declaration ending in a comment, a  *)
(* bare declaration), a signature and its closing brace.                   *)

MaxBetween == 1

MalformedTops ==
    {<<>>, <<"/* globals */">>, <<"/** Does f.">>,
     <<"/** Does f.">> \o Repeat(" * x", DocLookback)}

MalformedBetween ==
    {<<>>} \cup FilesOver({"int y;", " * more", "", "// note"}, MaxBetween)

MalformedFiles ==
    {top \o mid \o last \o <<"int f(void) {", "}">> :
        top \in MalformedTops,
        mid \in MalformedBetween,
        last \in {<<>>, <<" */">>, <<"int z; /* n */">>, <<"int z;">>}}

InitMalformed == InitCheck(MalformedFiles)

SpecMalformed == InitMalformed /\ [][NextCheck]_vars

----------------------------------------------------------------------------
(* check_file on every file of at most MaxFileAllowLines lines made of a   *)
(* tagged enum member, an annotation naming no-tagged-union alone, one     *)
(* naming it after another rule, a signature and a closing brace.          *)

MaxFileAllowLines == 4

FileAllowLines ==
    {"enum { A, B } kind;", "// FERN_STYLE: allow(no-tagged-union)",
     "// FERN_STYLE: allow(no-free, no-tagged-union)", "int a() {", "}"}

InitFileAllow == InitCheck(FilesOver(FileAllowLines, MaxFileAllowLines))

SpecFileAllow == InitFileAllow /\ [][NextCheck]_vars

----------------------------------------------------------------------------
(* check_file on every file of at most MaxAllowLines lines made of a       *)
(* signature, a closing brace, a line calling malloc and free, a line      *)
(* carrying two annotations, and an annotation naming a rule and an        *)
(* unknown id.                                                             *)

MaxAllowLines == 4

AllowLines ==
    {"int a() {", "}", "malloc(1); free(p);",
     "/* FERN_STYLE: allow(no-free) */ // FERN_STYLE: allow(no-malloc)",
     "// FERN_STYLE: allow( no-malloc , bogus)"}

InitAllow == InitCheck(FilesOver(AllowLines, MaxAllowLines))

SpecAllow == InitAllow /\ [][NextCheck]_vars

----------------------------------------------------------------------------
(* extract_function_params alone, on every signature of at most MaxParams  *)
(* parameters out of a scalar, a pointer, an array and a function pointer, *)
(* and on the signatures with an empty list and with void.                 *)

MaxParams == 3

ParamLibrary == {"int x", "char *s", "int a[4]", "int (*cb)(int)"}

ParamSignatures ==
    {"int f(" \o JoinComma(ps) \o ") {" : ps \in FilesOver(ParamLibrary, MaxParams)}
        \cup {"int f() {", "int f(void) {"}

InitParams ==
    /\ main = MainIdle
    /\ strip = StripStart("")
    /\ extract_params \in {ParamsStart(l) : l \in ParamSignatures}
    /\ lines = <<>>
    /\ pc = "extract_function_params"
    /\ scan = ScanStart
    /\ functions = <<>>
    /\ func_idx = 0
    /\ violations = <<>>

\* the call runs to its return
ParamsReturn ==
    /\ pc = "extract_function_params"
    /\ extract_params' =
           [extract_params EXCEPT
               !.names = extract_function_params(extract_params.line)]
    /\ pc' = "params_done"
    /\ UNCHANGED <<main, strip, lines, scan, functions, func_idx, violations>>

NextParams == ParamsReturn

SpecParams == InitParams /\ [][NextParams]_vars

----------------------------------------------------------------------------
(* check_file on every file made of an optional declaration or comment, a  *)
(* signature taking a char pointer (bare, const with one space, const      *)
(* with two spaces), an int, or argc and argv, at most MaxRawBody body     *)
(* lines out of a char pointer declaration and a call, and the closing     *)
(* brace.                                                                  *)

MaxRawBody == 2

RawCharSignatures ==
    {"int f(char *s) {", "int f(const char *s) {", "int f(const  char *s) {",
     "int f(int n) {", "int main(int argc, char **argv) {"}

RawCharFiles ==
    {prefix \o <<sig>> \o body \o <<"}">> :
        prefix \in {<<>>, <<"int y;">>, <<"// note">>},
        sig \in RawCharSignatures,
        body \in {<<>>} \cup FilesOver({"char *t;", "x();"}, MaxRawBody)}

InitRawChar == InitCheck(RawCharFiles)

SpecRawChar == InitRawChar /\ [][NextCheck]_vars

----------------------------------------------------------------------------
(* What the claims measure the stripper against: the state of a lexer of   *)
(* C literals after the first k characters of a line, as the               *)
(* specification's LiteralStripper section describes literals.  mode is    *)
(* "out", "lit" (inside a literal opened by quote) or "esc" (inside a      *)
(* literal, right after a backslash).                                      *)

RECURSIVE RefLex(_, _)
RefLex(line, k) ==
    IF k = 0 THEN [mode |-> "out", quote |-> ""]
    ELSE LET before == RefLex(line, k - 1)
             c == Ch(line, k)
         IN  CASE before.mode = "out" ->
                    IF c = "\"" \/ c = "'"
                    THEN [mode |-> "lit", quote |-> c]
                    ELSE before
               [] before.mode = "lit" ->
                    IF c = "\\" THEN [before EXCEPT !.mode = "esc"]
                    ELSE IF c = before.quote
                         THEN [mode |-> "out", quote |-> ""]
                         ELSE before
               [] OTHER -> [before EXCEPT !.mode = "lit"]

\* position k lies inside a literal: it is neither outside nor a delimiter
RefInside(line, k) ==
    LET before == RefLex(line, k - 1) IN
    \/ before.mode = "esc"
    \/ before.mode = "lit" /\ Ch(line, k) # before.quote

----------------------------------------------------------------------------
(* Claims about strip_string_literals, under SpecStrip.                    *)

\* C5: strip_string_literals is length-preserving for every line, also one
\* with an unterminated literal or a backslash as the last character of a
\* literal: the returned string is as long as the line.
C5_LengthPreserving ==
    pc = "stripped" => Len(strip.result) = Len(strip.line)

\* the stripper returned on a line that ends inside a literal, on a backslash
C5_Witness ==
    /\ pc = "stripped"
    /\ strip.in_string
    /\ Len(strip.line) >= 2
    /\ Ch(strip.line, Len(strip.line)) = "\\"
    /\ RefLex(strip.line, Len(strip.line)).mode = "esc"

\* C6: every character outside a literal and every delimiting quote is
\* returned unchanged, every character inside a literal is returned as a
\* space; a line without a quote character is returned as it is.
C6_BlanksExactlyLiteralContents ==
    pc = "stripped" =>
        /\ Len(strip.result) = Len(strip.line)
        /\ \A k \in 1..Len(strip.line) :
              Ch(strip.result, k) =
                  IF RefInside(strip.line, k) THEN " " ELSE Ch(strip.line, k)
        /\ (Count(strip.line, "\"") = 0 /\ Count(strip.line, "'") = 0
               => strip.result = strip.line)

\* the stripper returned on a line with a brace outside and a brace inside a
\* closed literal: the first is kept, the second blanked
C6_Witness ==
    /\ pc = "stripped"
    /\ ~strip.in_string
    /\ \E k \in 1..Len(strip.line) :
          Ch(strip.line, k) = "{" /\ Ch(strip.result, k) = "{"
    /\ \E k \in 1..Len(strip.line) :
          Ch(strip.line, k) = "{" /\ Ch(strip.result, k) = " "

\* C7: inside a literal a backslash and the character after it are blanked
\* as one two-character unit that never ends the literal; the literal ends
\* only at a quote equal to its opening quote that no backslash escapes, so
\* the stripper is inside a literal exactly where the reference lexer is.
C7_EscapeNeverTerminates ==
    [][pc = "strip" /\ ~StripDone(strip) =>
          LET c == Ch(strip.line, strip.i + 1) IN
          /\ (strip.in_string /\ c = "\\" /\ strip.i + 2 <= Len(strip.line)
                 => /\ strip'.i = strip.i + 2
                    /\ strip'.in_string
                    /\ strip'.string_char = strip.string_char
                    /\ strip'.result = strip.result \o "  ")
          /\ (strip.in_string /\ ~strip'.in_string
                 => /\ c = strip.string_char
                    /\ RefLex(strip.line, strip.i).mode = "lit")
          /\ strip'.i <= Len(strip.line)
          /\ (strip'.in_string <=> RefLex(strip.line, strip'.i).mode # "out")
          /\ (strip'.in_string
                 => strip'.string_char = RefLex(strip.line, strip'.i).quote)
      ]_vars

\* the stripper returned on a line whose double-quoted literal holds an
\* escaped double quote and is closed by a later one
C7_Witness ==
    /\ pc = "stripped"
    /\ ~strip.in_string
    /\ \E k \in 2..(Len(strip.line) - 2) :
          /\ RefLex(strip.line, k - 1) = [mode |-> "lit", quote |-> "\""]
          /\ Ch(strip.line, k) = "\\"
          /\ Ch(strip.line, k + 1) = "\""
          /\ Ch(strip.result, k + 1) = " "
          /\ RefLex(strip.line, k + 1).mode = "lit"

----------------------------------------------------------------------------
(* Claims about the spans and the suppression scope, under SpecScope.      *)

\* a suppression annotation on line n of the file names the rule
Annotated(n, rule) == rule \in AllowedOnLine(lines[n])

\* C1: a rule id is in a function's allowed_rules only if an annotation
\* naming it lies on a line of that function's own span; so an annotation
\* inside function A never keeps no-malloc from being reported for another
\* function B that calls malloc and has no such annotation of its own.
C1_SuppressionScopedToFunction ==
    /\ pc \in {"rules", "done"} =>
          \A n \in 1..Len(functions) :
              \A rule \in functions[n].allowed_rules :
                  \E ln \in functions[n].start_line..functions[n].end_line :
                      Annotated(ln, rule)
    /\ pc = "done" =>
          \A n \in 1..Len(functions) :
              LET B == functions[n] IN
              (B.has_malloc
                  /\ \A ln \in B.start_line..B.end_line : ~Annotated(ln, "no-malloc"))
                 => \E v \in 1..Len(violations) :
                        /\ violations[v].rule = "no-malloc"
                        /\ violations[v].line = B.start_line
                        /\ violations[v].function = B.name

\* check_file returned on a file in which function A carries the annotation
\* in its body, the adjacent function B calls malloc and B is reported
C1_Witness ==
    /\ pc = "done"
    /\ Len(functions) = 2
    /\ functions[2].start_line = functions[1].end_line + 1
    /\ "no-malloc" \in functions[1].allowed_rules
    /\ \E ln \in (functions[1].start_line + 1)..functions[1].end_line :
          Annotated(ln, "no-malloc")
    /\ functions[2].has_malloc
    /\ "no-malloc" \notin functions[2].allowed_rules
    /\ \E v \in 1..Len(violations) :
          /\ violations[v].rule = "no-malloc"
          /\ violations[v].line = functions[2].start_line

\* C3: the spans extract_functions collects are in strictly increasing line
\* order and pairwise disjoint: each later record starts after the earlier
\* one ends, the scan resumes after the last span, and no line inside a
\* span is the signature line of another record.
C3_SpansDisjointAndIncreasing ==
    LET fs == scan.functions IN
    /\ \A n \in 1..Len(fs) :
          /\ fs[n].start_line <= fs[n].end_line
          /\ n > 1 => fs[n].start_line > fs[n - 1].end_line
          /\ \A m \in 1..Len(fs) :
                m # n => ~(fs[n].start_line <= fs[m].start_line
                             /\ fs[m].start_line <= fs[n].end_line)
    /\ (pc = "scan" /\ fs # <<>>) => scan.i + 1 > fs[Len(fs)].end_line
    /\ (pc = "body" /\ fs # <<>>) => scan.start_line > fs[Len(fs)].end_line

\* extract_functions returned two records on a file in which a line inside
\* the first span has the shape of a signature and started no record
C3_Witness ==
    /\ pc = "rules"
    /\ Len(functions) = 2
    /\ \E ln \in (functions[1].start_line + 1)..functions[1].end_line :
          /\ FuncPatternMatches(lines[ln])
          /\ \A n \in 1..Len(functions) : functions[n].start_line # ln

----------------------------------------------------------------------------
(* Claims about brace matching, under SpecBrace.                           *)

\* the line with the contents of its literals blanked, by the reference
\* lexer
RefBlank(line) ==
    LET blank == [k \in 1..Len(line) |->
                     IF RefInside(line, k) THEN " " ELSE Ch(line, k)]
        glue[k \in 0..Len(line)] ==
            IF k = 0 THEN "" ELSE glue[k - 1] \o blank[k]
    IN  glue[Len(line)]

\* line n lies in the body of one of the records
InSomeBody(fs, n) ==
    \E m \in 1..Len(fs) : fs[m].start_line < n /\ n <= fs[m].end_line

\* the file with the literals of every body line blanked
BodiesBlanked(ls, fs) ==
    [n \in 1..Len(ls) |-> IF InSomeBody(fs, n) THEN RefBlank(ls[n]) ELSE ls[n]]

Spans(fs) == [n \in 1..Len(fs) |-> <<fs[n].start_line, fs[n].end_line>>]

\* C2: braces inside string or char literals of body lines never change the
\* brace depth: extract_functions computes the same start_line and end_line
\* for every function when the contents of the literals of the body lines
\* are blanked.
C2_LiteralBracesDoNotMoveEndLine ==
    pc = "rules" =>
        Spans(extract_functions(BodiesBlanked(lines, functions))) = Spans(functions)

\* extract_functions returned a function closed before the end of the file
\* by a "}" line, whose body holds a brace inside a literal
C2_Witness ==
    /\ pc = "rules"
    /\ \E n \in 1..Len(functions) :
          /\ functions[n].end_line < Len(lines)
          /\ lines[functions[n].end_line] = "}"
          /\ \E ln \in (functions[n].start_line + 1)..functions[n].end_line :
                \E k \in 1..Len(lines[ln]) :
                    /\ Ch(lines[ln], k) \in {"{", "}"}
                    /\ RefInside(lines[ln], k)

\* the brace depth after line e of a function whose signature is line start:
\* 1 for the signature's brace, then count("{") - count("}") of each
\* literal-stripped line
RECURSIVE DepthAfter(_, _, _)
DepthAfter(ls, start, e) ==
    IF e <= start THEN 1
    ELSE DepthAfter(ls, start, e - 1)
             + Count(strip_string_literals(ls[e]), "{")
             - Count(strip_string_literals(ls[e]), "}")

\* the first line after start at which the depth satisfies Reached,
\* the last line of the file if there is none
FirstLineWhere(ls, start, Reached(_)) ==
    LET hits == {e \in (start + 1)..Len(ls) : Reached(DepthAfter(ls, start, e))}
    IN  IF hits = {} THEN Len(ls)
        ELSE CHOOSE e \in hits : \A x \in hits : e <= x

IsZero(depth) == depth = 0
IsZeroOrLess(depth) == depth <= 0

\* the facts of a record are those of the lines start_line+1 .. end_line
FactsOverSpan(f) ==
    LET body == (f.start_line + 1)..f.end_line IN
    /\ f.assertion_count = Cardinality({ln \in body : HasAssert(lines[ln])})
    /\ f.has_malloc = (\E ln \in body : HasMalloc(lines[ln]))
    /\ f.has_free = (\E ln \in body : HasFree(lines[ln]))
    /\ f.has_unbounded_loop = (\E ln \in body : LooksUnbounded(lines[ln]))

\* C4 as stated: end_line is the first line after the signature at which the
\* running depth reaches 0, the last line of the file if it never reaches 0;
\* start_line <= end_line <= number of lines and the facts are those of the
\* lines up to end_line.
C4_EndLineWhereDepthReachesZero ==
    \A n \in 1..Len(scan.functions) :
        LET f == scan.functions[n] IN
        /\ f.end_line = FirstLineWhere(lines, f.start_line, IsZero)
        /\ f.start_line <= f.end_line
        /\ f.end_line <= Len(lines)
        /\ FactsOverSpan(f)

\* C4 amended: end_line is the first line after the signature at which the
\* running depth is 0 or less (a line closing more braces than are open
\* ends the span too), the last line of the file if there is none;
\* start_line <= end_line <= number of lines and the facts are those of the
\* lines up to end_line.
C4_EndLineWhereDepthZeroOrLess ==
    \A n \in 1..Len(scan.functions) :
        LET f == scan.functions[n] IN
        /\ f.end_line = FirstLineWhere(lines, f.start_line, IsZeroOrLess)
        /\ f.start_line <= f.end_line
        /\ f.end_line <= Len(lines)
        /\ FactsOverSpan(f)

\* check_file returned on a file whose last function is never closed: its
\* span ends at the last line and its assertion was counted and reported
C4_Witness ==
    /\ pc = "done"
    /\ \E n \in 1..Len(functions) :
          LET f == functions[n] IN
          /\ f.end_line = Len(lines)
          /\ f.end_line > f.start_line
          /\ DepthAfter(lines, f.start_line, f.end_line) > 0
          /\ f.assertion_count = 1
          /\ \E v \in 1..Len(violations) :
                violations[v].rule = "assertion-density"
                    /\ violations[v].line = f.start_line

----------------------------------------------------------------------------
(* Claims about the rules of check_file.                                   *)

\* check_file reported the rule for the function starting at start_line
Reported(rule, start_line) ==
    \E v \in 1..Len(violations) :
        violations[v].rule = rule /\ violations[v].line = start_line

\* the lines of the body of a record that hold an assert call
AssertLinesOf(f) ==
    {ln \in (f.start_line + 1)..f.end_line : HasAssert(lines[ln])}

\* C8 (under SpecAssert): assertion-density is reported for a function
\* exactly when its assertion_count is below 2 and assertion-density is not
\* in its allowed_rules; with exactly 2 counted assertion lines it is never
\* reported, with 1 or 0 (and no annotation) it is.
C8_AssertionDensityBoundary ==
    pc = "done" =>
        \A n \in 1..Len(functions) :
            LET f == functions[n] IN
            /\ Reported("assertion-density", f.start_line)
                  <=> (f.assertion_count < 2
                          /\ "assertion-density" \notin f.allowed_rules)
            /\ Cardinality(AssertLinesOf(f)) = 2
                  => ~Reported("assertion-density", f.start_line)
            /\ (Cardinality(AssertLinesOf(f)) \in {0, 1}
                   /\ \A ln \in f.start_line..f.end_line :
                          ~Annotated(ln, "assertion-density"))
                  => Reported("assertion-density", f.start_line)

\* check_file returned on a closed function with exactly two assertion
\* lines and no annotation, and did not report it
C8_Witness ==
    /\ pc = "done"
    /\ \E n \in 1..Len(functions) :
          LET f == functions[n] IN
          /\ Cardinality(AssertLinesOf(f)) = 2
          /\ f.assertion_count = 2
          /\ f.allowed_rules = {}
          /\ lines[f.end_line] = "}"
          /\ ~Reported("assertion-density", f.start_line)

\* C9 (under SpecLength): function-length is reported for a function
\* exactly when end_line - start_line > 70 and function-length is not in
\* its allowed_rules: a function on lines start..start+70 is not reported,
\* one on lines start..start+71 is.
C9_FunctionLengthBoundary ==
    pc = "done" =>
        \A n \in 1..Len(functions) :
            LET f == functions[n] IN
            /\ Reported("function-length", f.start_line)
                  <=> (f.end_line - f.start_line > 70
                          /\ "function-length" \notin f.allowed_rules)
            /\ f.end_line = f.start_line + 70
                  => ~Reported("function-length", f.start_line)
            /\ (f.end_line = f.start_line + 71
                   /\ \A ln \in f.start_line..f.end_line :
                          ~Annotated(ln, "function-length"))
                  => Reported("function-length", f.start_line)

\* check_file returned on a function on lines start..start+70 without an
\* annotation, and did not report it
C9_Witness ==
    /\ pc = "done"
    /\ \E n \in 1..Len(functions) :
          LET f == functions[n] IN
          /\ f.end_line = f.start_line + 70
          /\ f.allowed_rules = {}
          /\ ~Reported("function-length", f.start_line)

\* C10 (under SpecScenario): for the single two-parameter function with no
\* assertion, a malloc call in its body and no comment before it,
\* check_file yields exactly three violations: assertion-density (error),
\* no-malloc (error) and doc-comment (warning).
C10_ScenarioYieldsThreeViolations ==
    pc = "done" =>
        /\ Len(functions) = 1
        /\ Len(functions[1].param_names) = 2
        /\ functions[1].assertion_count = 0
        /\ functions[1].has_malloc
        /\ ~functions[1].doc_comment.exists
        /\ Len(violations) = 3
        /\ {<<violations[v].rule, violations[v].severity, violations[v].line,
              violations[v].function>> : v \in 1..Len(violations)}
             = {<<"assertion-density", "error", functions[1].start_line,
                  functions[1].name>>,
                <<"no-malloc", "error", functions[1].start_line,
                  functions[1].name>>,
                <<"doc-comment", "warning", functions[1].start_line,
                  functions[1].name>>}

\* check_file returned on the scenario file whose function f(int a, int b)
\* has the malloc call in the middle of its body
C10_Witness ==
    /\ pc = "done"
    /\ Len(functions) = 1
    /\ functions[1].name = "f"
    /\ functions[1].param_names = <<"a", "b">>
    /\ functions[1].end_line - functions[1].start_line = ScenarioBody + 1
    /\ HasMalloc(lines[functions[1].start_line + 5])
    /\ Len(violations) = 3

----------------------------------------------------------------------------
(* Claims about the file-level rule, under SpecTagged.                     *)

\* the violations of one rule, in the order check_file appended them
OfRule(vs, rule) == SelectSeq(vs, LAMBDA v : v.rule = rule)

\* the line numbers of the file holding exactly this text
LinesEqual(ls, text) == {n \in 1..Len(ls) : ls[n] = text}

\* C11: when check_file has returned for a file in which exactly one line
\* is the tagged enum member "enum { A, B } kind;" and no line holds a
\* FERN_STYLE suppression comment, the list holds exactly one violation of
\* rule no-tagged-union; it is a warning with an empty function name on
\* that line, however many functions were extracted and whether or not a
\* function span contains the line.
C11_OneTaggedUnionWarning ==
    LET hits == LinesEqual(lines, "enum { A, B } kind;")
        found == OfRule(violations, "no-tagged-union")
    IN  (/\ pc = "done"
         /\ Cardinality(hits) = 1
         /\ \A n \in 1..Len(lines) : ~Contains(lines[n], "FERN_STYLE"))
        => /\ Len(found) = 1
           /\ found[1].severity = "warning"
           /\ found[1].function = ""
           /\ found[1].line \in hits

\* C11 happens: the member stands inside a struct that stands inside the
\* span of an extracted function, and the one warning is in the list
C11_Witness ==
    /\ pc = "done"
    /\ Len(lines) = 5
    /\ lines[1] = "int a() {"
    /\ lines[2] = "struct s {"
    /\ lines[3] = "enum { A, B } kind;"
    /\ Len(functions) = 1
    /\ functions[1].start_line < 3
    /\ functions[1].end_line >= 3
    /\ Len(OfRule(violations, "no-tagged-union")) = 1

----------------------------------------------------------------------------
(* Claims about documentation, under SpecDoc.                              *)

\* lines a..b of the file are a block comment opened by "/**" on line a and
\* closed by "*/" on line b, holding a description, an "@param x" tag and
\* an "@return" tag, and nothing but blank lines stands between it and the
\* signature on line sig, whose one parameter is x and whose return type
\* is not void
DocumentedCase(ls, a, b, sig) ==
    /\ a <= b
    /\ b < sig
    /\ \A n \in (b + 1)..(sig - 1) : StrStrip(ls[n]) = ""
    /\ StartsWith(StrStrip(ls[a]), "/**")
    /\ EndsWith(StrStrip(ls[b]), "*/")
    /\ \A n \in (a + 1)..b : ~StartsWith(StrStrip(ls[n]), "/*")
    /\ \A n \in a..(b - 1) : ~EndsWith(StrStrip(ls[n]), "*/")
    /\ \E n \in a..b : Contains(ls[n], "Does X.")
    /\ \E n \in a..b : Contains(ls[n], "@param x ")
    /\ \E n \in a..b : Contains(ls[n], "@return ")
    /\ Contains(ls[sig], "(int x)") \/ Contains(ls[sig], "(int *x)")
    /\ ~StartsWith(ls[sig], "void")

\* no documentation violation is reported for the function on line sig
NoDocViolation(sig) ==
    \A k \in 1..Len(violations) :
        violations[k].line = sig
            => violations[k].rule \notin {"doc-comment", "doc-params", "doc-return"}

----------------------------------------------------------------------------
(* Claims about main and about check_file called again and again, under    *)
(* SpecMain.                                                               *)

\* no read of the run failed
AllRead(vs) == \A k \in 1..Len(vs) : vs[k].rule # "read-error"

\* vs is one list n times over
Repeats(vs, n) ==
    /\ Len(vs) % n = 0
    /\ \A k \in 1..Len(vs) : vs[k] = vs[((k - 1) % (Len(vs) \div n)) + 1]

\* C13: when main has returned from a run in which find_c_files yielded one
\* path several times, the content unchanged and every read successful,
\* all_violations is the list of the first call of check_file repeated once
\* per call: every call returned the same violations (file, line, function,
\* rule, message, severity) in the same order.
C13_SecondRunRepeatsFirst ==
    (/\ pc = "exit"
     /\ Len(main.paths) >= 2
     /\ \A n \in 1..Len(main.paths) : main.paths[n] = main.paths[1]
     /\ AllRead(main.all_violations))
        => /\ Repeats(main.all_violations, Len(main.paths))
           /\ \A k \in 1..Len(main.all_violations) :
                  main.all_violations[k].file = main.paths[1]

\* C13 happens: check_file ran twice on a.c, read it both times, and
\* returned twice the same three violations
C13_Witness ==
    /\ pc = "exit"
    /\ main.paths = <<"a.c", "a.c">>
    /\ AllRead(main.all_violations)
    /\ Len(main.all_violations) = 6
    /\ SubSeq(main.all_violations, 1, 3) = SubSeq(main.all_violations, 4, 6)

\* v is the violation of a failed read of the file at path
IsReadError(v, path) ==
    /\ v.rule = "read-error"
    /\ v.severity = "error"
    /\ v.line = 0
    /\ v.function = ""
    /\ v.file = path

\* vs is what the files k, k + 1, ... of main.paths contribute, in this
\* order: one read-error violation for each file in failed, the violations
\* of the content for each other file
RECURSIVE CollectedFrom(_, _, _)
CollectedFrom(vs, k, failed) ==
    IF k > Len(main.paths) THEN vs = <<>>
    ELSE IF k \in failed
    THEN /\ Len(vs) >= 1
         /\ IsReadError(vs[1], main.paths[k])
         /\ CollectedFrom(Tail(vs), k + 1, failed)
    ELSE LET found == check_file(main.paths[k], main.fs[main.paths[k]]) IN
         /\ Len(vs) >= Len(found)
         /\ SubSeq(vs, 1, Len(found)) = found
         /\ CollectedFrom(SubSeq(vs, Len(found) + 1, Len(vs)), k + 1, failed)

\* C14: a call of check_file whose read fails returns exactly one
\* violation, of rule read-error, severity error, line 0 and empty function
\* name; and when main has returned, every file was checked and
\* all_violations holds, file by file, that one violation for each file
\* whose read failed - nothing else of it - and the violations of every
\* other file, those after a failed one included.
C14_ReadErrorIsOneViolationAndRunGoesOn ==
    /\ pc = "read_error"
           => Len(violations) = 1 /\ IsReadError(violations[1], main.filepath)
    /\ pc = "exit"
           => /\ main.files_checked = Len(main.paths)
              /\ \E failed \in SUBSET (1..Len(main.paths)) :
                     CollectedFrom(main.all_violations, 1, failed)

\* C14 happens: the read of the first file failed, the second file was
\* read, and its violations stand in all_violations after the read-error
C14_Witness ==
    /\ pc = "exit"
    /\ Len(main.paths) = 2
    /\ Len(main.all_violations) >= 3
    /\ IsReadError(main.all_violations[1], main.paths[1])
    /\ AllRead(Tail(main.all_violations))
    /\ CollectedFrom(main.all_violations, 1, {1})

\* C15: when main has returned, its exit code is 0 if no file was found;
\* otherwise, without --strict, it is 1 exactly when all_violations holds a
\* violation of severity error, and with --strict exactly when
\* all_violations holds any violation; and all_violations is what the files
\* found contribute, whatever --strict and --summary are.
C15_ExitCode ==
    pc = "exit" =>
        LET found == main.all_violations
            has_error == \E k \in 1..Len(found) : found[k].severity = "error"
        IN  /\ main.exit_code \in {0, 1}
            /\ Len(main.paths) = 0 => main.exit_code = 0
            /\ (Len(main.paths) > 0 /\ ~main.strict)
                   => (main.exit_code = 1 <=> has_error)
            /\ (Len(main.paths) > 0 /\ main.strict)
                   => (main.exit_code = 1 <=> found # <<>>)
            /\ \E failed \in SUBSET (1..Len(main.paths)) :
                   CollectedFrom(found, 1, failed)

\* C15 happens: a run with --strict and --summary collected warnings only
\* and returned 1
C15_Witness ==
    /\ pc = "exit"
    /\ main.strict
    /\ main.summary
    /\ main.all_violations # <<>>
    /\ CountSeverity(main.all_violations, "error") = 0
    /\ main.exit_code = 1

\* C18: at every step of a run of main: the file check_file is entered for
\* is the next path in discovery order; the list check_file returns after
\* a successful read is the one the path and the content of that file
\* determine, whatever was checked before; and all_violations changes only
\* by the list just returned being appended to it.
C18_FilesIndependent ==
    [][/\ (pc = "main" /\ pc' = "check_file")
           => /\ main'.filepath = main.paths[main.files_checked + 1]
              /\ main'.files_checked = main.files_checked + 1
       /\ pc' = "done"
           => violations' = check_file(main'.filepath, main'.fs[main'.filepath])
       /\ main'.all_violations # main.all_violations
           => /\ pc \in {"done", "read_error"}
              /\ main'.all_violations = main.all_violations \o violations
       /\ (pc \in {"done", "read_error"} /\ pc' = "main")
           => main'.all_violations = main.all_violations \o violations
      ]_vars

\* C18 happens: two files of different content were read, b.c before a.c,
\* each with violations, and all_violations is the list of b.c followed by
\* the list of a.c
C18_Witness ==
    /\ pc = "exit"
    /\ main.paths = <<"b.c", "a.c">>
    /\ main.fs["a.c"] # main.fs["b.c"]
    /\ check_file("a.c", main.fs["a.c"]) # <<>>
    /\ Len(check_file("b.c", main.fs["b.c"])) >= 2
    /\ main.all_violations =
           check_file("b.c", main.fs["b.c"]) \o check_file("a.c", main.fs["a.c"])

----------------------------------------------------------------------------
(* Claims about the doc-style key, under SpecDoc.                          *)

\* an annotation naming the rule stands on a line of the span of f
AnnotatedIn(f, rule) ==
    \E n \in f.start_line..f.end_line : Annotated(n, rule)

----------------------------------------------------------------------------
(* Claims about the rule table, under SpecRules.                           *)

FunctionRuleIds ==
    {"assertion-density", "function-length", "no-malloc", "no-free",
     "bounded-loops", "doc-comment", "doc-params", "doc-return", "no-raw-char"}

\* C17: in the list check_file has built so far and in the list it
\* returns, every violation of a function rule stands on the start line of
\* one function record and bears its name, no two violations of the same
\* rule stand on the same function record, every no-tagged-union violation
\* stands on a line holding the tagged enum member, and no two of them on
\* the same line.
C17_OneViolationPerRuleAndRecord ==
    /\ \A k \in 1..Len(violations) :
           LET v == violations[k] IN
           \/ /\ v.rule \in FunctionRuleIds
              /\ \E n \in 1..Len(functions) :
                     /\ functions[n].start_line = v.line
                     /\ functions[n].name = v.function
           \/ /\ v.rule = "no-tagged-union"
              /\ lines[v.line] = "enum { A, B } kind;"
           \/ v.rule = "read-error"
    /\ \A j, k \in 1..Len(violations) :
           (j # k /\ violations[j].rule = violations[k].rule)
               => violations[j].line # violations[k].line

\* C17 happens: check_file returned for a file with a tagged enum member
\* and a function record on which six different rules are reported, once
\* each
C17_Witness ==
    /\ pc = "done"
    /\ Len(functions) = 1
    /\ Len(violations) = 7
    /\ Cardinality({violations[k].rule :
                       k \in {j \in 1..Len(violations) :
                                 violations[j].line = functions[1].start_line}}) = 6
    /\ Len(OfRule(violations, "no-tagged-union")) = 1

----------------------------------------------------------------------------
(* Claims about termination, under SpecDoc.                                *)

\* the forward line index: i in the candidate loop, j in the body loop
ForwardIndex(p, s) == IF p = "body" THEN s.j ELSE s.i

\* the file with every line further than DocLookback lines above the line
\* of index func_line_idx turned into a declaration
FarHidden(ls, func_line_idx) ==
    [n \in 1..Len(ls) |->
        IF n - 1 < func_line_idx - DocLookback THEN "int far;" ELSE ls[n]]

\* C19: every iteration of the candidate loop and of the body loop of
\* extract_functions moves the forward line index up by one line, within
\* the file, and leaving the body loop keeps it (i = j), so no line is
\* visited twice; the doc comment found for a signature is the one found
\* with every line further than 30 lines above it replaced, so the backward
\* scan reads the 30 lines above the signature at most; and every run of
\* check_file comes to an end: from some point on no step is taken, and
\* this is so without any assumption on how the steps are scheduled.
C19_ScanTerminates ==
    /\ [][(pc \in {"scan", "body"} /\ pc' \in {"scan", "body"})
             => /\ IF pc = "body" /\ pc' = "scan"
                   THEN ForwardIndex(pc', scan') = ForwardIndex(pc, scan)
                   ELSE ForwardIndex(pc', scan') = ForwardIndex(pc, scan) + 1
                /\ ForwardIndex(pc', scan') <= Len(lines)
                /\ (pc = "scan" /\ pc' = "body")
                       => scan'.doc_comment =
                              parse_doc_comment(FarHidden(lines, scan.i), scan.i)
         ]_vars
    /\ <>[][FALSE]_vars

\* C19 happens: check_file returned for a file whose one function stands
\* below a block comment opened more than DocLookback lines above the
\* signature, and no doc comment was found for it
C19_Witness ==
    /\ pc = "done"
    /\ Len(functions) = 1
    /\ functions[1].start_line > DocLookback + 1
    /\ \E a \in 1..(functions[1].start_line - DocLookback - 1) :
           StartsWith(lines[a], "/**")
    /\ EndsWith(lines[functions[1].start_line - 1], "*/")
    /\ ~functions[1].doc_comment.exists

----------------------------------------------------------------------------
(* Claims about the shape of a signature line, under SpecOneLine.          *)

\* the last significant character of a line, "" on a blank line
LastSignificant(line) == Ch(line, SkipSpaceBack(line, Len(line)))

\* C20: a line is recognized as a function signature only if its opening
\* brace is the last significant character of the line: every function
\* record starts on a line ending at "{", and a line carrying text after
\* the brace starts no span, so the line below it is still a candidate (a
\* signature standing there gets its own record).
C20_BraceEndsSignatureLine ==
    pc = "done"
        => /\ \A k \in 1..Len(functions) :
                  LastSignificant(lines[functions[k].start_line]) = "{"
           /\ \A n \in 2..Len(lines) :
                  (/\ FuncPatternMatches(lines[n])
                   /\ LastSignificant(lines[n]) = "{"
                   /\ \A m \in 1..(n - 1) : LastSignificant(lines[m]) # "{")
                      => \E k \in 1..Len(functions) :
                             functions[k].start_line = n

----------------------------------------------------------------------------
(* Claims about the lines the facts are read from, under SpecLiteral.      *)

\* the facts of a record are those of the literal-stripped forms of the
\* lines start_line+1 .. end_line
StrippedFactsOverSpan(f) ==
    LET body == (f.start_line + 1)..f.end_line
        stripped(ln) == strip_string_literals(lines[ln])
    IN  /\ f.assertion_count = Cardinality({ln \in body : HasAssert(stripped(ln))})
        /\ f.has_malloc = (\E ln \in body : HasMalloc(stripped(ln)))
        /\ f.has_free = (\E ln \in body : HasFree(stripped(ln)))
        /\ f.has_unbounded_loop = (\E ln \in body : LooksUnbounded(stripped(ln)))

\* C21: the facts of a function are collected from the literal-stripped
\* form of each body line: text standing inside a string or char literal
\* only never changes assertion_count, has_malloc, has_free or
\* has_unbounded_loop.
C21_FactsFromStrippedLines ==
    pc = "done" => \A k \in 1..Len(functions) : StrippedFactsOverSpan(functions[k])

----------------------------------------------------------------------------
(* Claims about the loop shapes, under SpecLoop.                           *)

\* the position of the ")" closing the "(" at position open, 0 if it is
\* not closed on the line
ClosingParen(line, open) ==
    LET balanced(q) == Count(Slice(line, open, q), "(")
                           = Count(Slice(line, open, q), ")")
        hits == {q \in (open + 1)..Len(line) : balanced(q)}
    IN  IF hits = {} THEN 0 ELSE CHOOSE q \in hits : \A x \in hits : q <= x

\* a while loop stands at p whose whole condition, up to the parenthesis
\* closing the one after while, holds no operator and is not 0 or false
WhileWithoutBound(line, p) ==
    LET open == SkipSpace(line, p + 5)
        close == ClosingParen(line, open)
        condition == Slice(line, open + 1, close - 1)
    IN  /\ HasAt(line, p, "while")
        /\ WordStartsAt(line, p)
        /\ Ch(line, open) = "("
        /\ close > open + 1
        /\ \A q \in 1..Len(condition) :
              Ch(condition, q) \notin {"<", ">", "=", "!"}
        /\ StrStrip(condition) \notin {"0", "false"}

\* the line holds one of the loop shapes of the claim
UnboundedShape(line) ==
    \/ WhileLiteral(line, "1")
    \/ WhileLiteral(line, "true")
    \/ ForEver(line)
    \/ \E p \in 1..Len(line) : WhileWithoutBound(line, p)

\* C22: has_unbounded_loop is true for a function exactly when some body
\* line contains while(1), while(true) or for(;;), or a while loop whose
\* whole condition contains none of < > = ! and is not 0 or false; a
\* function whose while loops all compare, nested call parentheses in the
\* condition included, has has_unbounded_loop false.
C22_UnboundedLoopShapes ==
    pc = "done"
        => \A k \in 1..Len(functions) :
               functions[k].has_unbounded_loop
                   = (\E ln \in (functions[k].start_line + 1)..functions[k].end_line :
                          UnboundedShape(lines[ln]))

----------------------------------------------------------------------------
(* Claims about the return type, under SpecVoid.                           *)

\* the signature line declares a function returning void, whatever the
\* leading modifiers
ReturnsVoid(line) ==
    LET words == Words(get_return_type(line)) IN
    {words[n] : n \in 1..Len(words)} \ {"static", "inline"} = {"void"}

\* C23: check_file never reports doc-return for a function whose return
\* type is void, leading modifiers or not; doc-return is reported only for
\* a documented function with a non-empty, non-void return type and no
\* @return tag.
C23_NoDocReturnForVoid ==
    pc = "done"
        => \A k \in 1..Len(functions) :
               LET f == functions[k] IN
               /\ ReturnsVoid(lines[f.start_line])
                      => ~Reported("doc-return", f.start_line)
               /\ Reported("doc-return", f.start_line)
                      => /\ f.has_doc_comment
                         /\ f.return_type # ""
                         /\ ~ReturnsVoid(lines[f.start_line])
                         /\ ~f.doc_comment.has_return

----------------------------------------------------------------------------
(* Claims about the line form of a doc comment, under SpecLineDoc.         *)

IsDocLine(line) == StartsWith(StrStrip(line), "///")
IsBlankLine(line) == StrStrip(line) = ""

\* the index of the nearest non-blank line above the line of index
\* func_line_idx, -1 if there is none
NearestAbove(ls, func_line_idx) ==
    LET above == {i \in 0..(func_line_idx - 1) : ~IsBlankLine(ls[i + 1])}
    IN  IF above = {} THEN -1 ELSE CHOOSE i \in above : \A x \in above : x <= i

\* the stripped /// lines among lines a .. i (0-based)
DocLinesIn(ls, a, i) ==
    LET stripped == [n \in 1..(i - a + 1) |-> StrStrip(ls[a + n])]
        Keep(l) == StartsWith(l, "///")
    IN  SelectSeq(stripped, Keep)

\* the run of /// lines ending at line i with no other line in between
ConsecutiveRun(ls, i) ==
    LET a == CHOOSE a \in 0..i :
                 /\ \A n \in a..i : IsDocLine(ls[n + 1])
                 /\ a = 0 \/ ~IsDocLine(ls[a])
    IN  DocLinesIn(ls, a, i)

\* the /// lines ending at line i with nothing but blank lines in between,
\* down to line lo
RunAcrossBlanks(ls, i, lo) ==
    LET a == CHOOSE a \in lo..i :
                 /\ \A n \in a..i : IsDocLine(ls[n + 1]) \/ IsBlankLine(ls[n + 1])
                 /\ a = lo \/ ~(IsDocLine(ls[a]) \/ IsBlankLine(ls[a]))
    IN  DocLinesIn(ls, a, i)

\* what a line-form comment made of doc_lines documents
LineFormFacts(doc_lines) ==
    LET comment_text == JoinLines(doc_lines) IN
    [exists |-> TRUE,
     has_description |-> Len(StrStrip(Remove(comment_text, "///"))) > 5,
     documented_params |-> DocumentedParams(comment_text),
     has_return |-> HasReturnTag(comment_text)]

\* the function record k stands below a line-form comment
BelowLineForm(k) ==
    LET i == NearestAbove(lines, functions[k].start_line - 1) IN
    i >= 0 /\ IsDocLine(lines[i + 1])

----------------------------------------------------------------------------
(* Claims about malformed doc comments, under SpecMalformed.               *)

\* the line opens a block comment
IsStarter(line) == StartsWith(StrStrip(line), "/*")

\* the line closes a block comment
IsTerminator(line) == EndsWith(StrStrip(line), "*/")

\* an ordinary code line: not blank, no comment opener, continuation or
\* terminator
IsCodeLine(line) ==
    /\ ~IsBlankLine(line)
    /\ ~StartsWith(StrStrip(line), "//")
    /\ ~StartsWith(StrStrip(line), "*")
    /\ ~IsStarter(line)
    /\ ~IsTerminator(line)

\* the indices of the starter lines at or above line i within the lookback
\* of the signature at func_line_idx
StartersAbove(ls, func_line_idx, i) ==
    {j \in search_start(func_line_idx)..i : IsStarter(ls[j + 1])}

\* C25 as stated: parse_doc_comment returns exists = false for a malformed
\* or unterminated doc comment: when the terminator found above the signature
\* has no starter line within the lookback, when an ordinary code line
\* stands between the terminator and the nearest starter above it, and when
\* the first non-blank line above the signature is ordinary code.
C25_MalformedDocIsAbsent ==
    pc = "done"
        => \A k \in 1..Len(functions) :
               LET idx == functions[k].start_line - 1
                   i == NearestAbove(lines, idx)
                   starters == StartersAbove(lines, idx, i)
                   absent == ~functions[k].doc_comment.exists
               IN  i >= search_start(idx)
                       => /\ IsCodeLine(lines[i + 1]) => absent
                          /\ (IsTerminator(lines[i + 1]) /\ starters = {})
                                 => absent
                          /\ (/\ IsTerminator(lines[i + 1])
                              /\ \E j \in starters :
                                     /\ \A x \in starters : x <= j
                                     /\ \E n \in (j + 1)..(i - 1) :
                                            IsCodeLine(lines[n + 1]))
                                 => absent

\* C25 amended: parse_doc_comment returns exists = false when the
\* terminator found above the signature has no starter line within the
\* lookback, and when the first non-blank line above the signature is
\* ordinary code; the lines between a terminator and the nearest starter
\* above it are not examined, so with a starter within the lookback the
\* comment exists whatever stands in between.
C25_AbsentWithoutStarterOrBelowCode ==
    pc = "done"
        => \A k \in 1..Len(functions) :
               LET idx == functions[k].start_line - 1
                   i == NearestAbove(lines, idx)
                   starters == StartersAbove(lines, idx, i)
                   absent == ~functions[k].doc_comment.exists
               IN  i >= search_start(idx)
                       => /\ IsCodeLine(lines[i + 1]) => absent
                          /\ IsTerminator(lines[i + 1])
                                 => (absent <=> starters = {})

\* C25 happens: check_file returned for a function below a terminator
\* whose opening line stands further than the lookback above the
\* signature, and no doc comment was found
C25_Witness ==
    /\ pc = "done"
    /\ Len(functions) = 1
    /\ ~functions[1].doc_comment.exists
    /\ LET idx == functions[1].start_line - 1 IN
       /\ idx > DocLookback
       /\ IsTerminator(lines[idx])
       /\ \E j \in 1..(idx - DocLookback) : IsStarter(lines[j])
       /\ \A j \in (idx - DocLookback + 1)..idx : ~IsStarter(lines[j])

----------------------------------------------------------------------------
(* Claims about the file-level annotation, under SpecFileAllow.            *)

\* C26: file-level suppression of no-tagged-union follows the annotation
\* grammar of function-level suppression: if an annotation anywhere in the
\* file names no-tagged-union, alone or among several rule ids, no
\* no-tagged-union violation is returned; if none does, every matching
\* line yields one violation.
C26_FileLevelAnnotationGrammar ==
    pc = "done"
        => LET tagged == OfRule(violations, "no-tagged-union") IN
           IF \E n \in 1..Len(lines) :
                  "no-tagged-union" \in AllowedOnLine(lines[n])
           THEN tagged = <<>>
           ELSE /\ {tagged[k].line : k \in 1..Len(tagged)}
                       = {n \in 1..Len(lines) : TaggedUnionLine(lines[n])}
                /\ \A j, k \in 1..Len(tagged) :
                       tagged[j].line = tagged[k].line => j = k

----------------------------------------------------------------------------
(* Claims about the annotations of a function, under SpecAllow.            *)

\* the rule ids of the annotation standing at position p of the line
IdsAt(line, p) ==
    LET a == SkipSpace(line, SkipSpace(line, p + 2) + 11)
        pieces == SplitComma(Slice(line, a + 6, IndexFrom(line, ")", a + 6) - 1))
    IN  {StrStrip(pieces[n]) : n \in 1..Len(pieces)}

\* the rule ids of all the annotations of the line
AllIdsOnLine(line) ==
    UNION {IdsAt(line, p) : p \in {q \in 1..Len(line) : AllowMatchesAt(line, q)}}

\* the keys check_file looks up in allowed_rules
SuppressKeys == FunctionRuleIds \cup {"doc-style"}

\* C27: allowed_rules of a function is the union of the rule ids of all
\* the annotations on its signature line and on the lines start_line+1 ..
\* end_line, every id of every annotation, trimmed, also when a line
\* carries more than one annotation; ids that are no rule identifiers are
\* kept and suppress nothing.
C27_AllowedRulesIsUnionOfAllAnnotations ==
    pc = "done"
        => \A k \in 1..Len(functions) :
               LET f == functions[k] IN
               /\ f.allowed_rules
                      = UNION {AllIdsOnLine(lines[n]) : n \in f.start_line..f.end_line}
               /\ FunctionRules(f)
                      = FunctionRules([f EXCEPT !.allowed_rules = @ \cap SuppressKeys])

----------------------------------------------------------------------------
(* Claims about parameter names, under SpecParams.                         *)

\* the text between the first "(" of the line and the ")" closing it
FullParamText(line) ==
    LET open == IndexFrom(line, "(", 1) IN
    Slice(line, open + 1, ClosingParen(line, open) - 1)

\* the positions of the commas of text that stand outside parentheses
TopLevelCommas(text) ==
    {q \in 1..Len(text) :
        /\ Ch(text, q) = ","
        /\ Count(Slice(text, 1, q), "(") = Count(Slice(text, 1, q), ")")}

\* text cut at its top-level commas
TopLevelPieces(text) ==
    LET commas == TopLevelCommas(text)
        cuts == Ascending(commas \cup {0, Len(text) + 1})
    IN  [n \in 1..(Len(cuts) - 1) |-> Slice(text, cuts[n] + 1, cuts[n + 1] - 1)]

\* the last whitespace-separated token of a parameter, array suffixes and
\* leading stars removed
NameOfParam(param) ==
    LET words == Words(RemoveBrackets(param, 1)) IN
    IF words = <<>> THEN "" ELSE LStripStars(words[Len(words)])

----------------------------------------------------------------------------
(* Claims about raw char parameters, under SpecRawChar.                    *)

\* the word const and whitespace stand right before position p
ConstBefore(text, p) ==
    LET q == SkipSpaceBack(text, p - 1) IN
    q < p - 1 /\ HasAt(text, q - 4, "const")

\* the parameter text holds a char pointer that is not const-qualified
RawCharPointer(text) ==
    \E p \in 1..Len(text) :
        /\ HasAt(text, p, "char")
        /\ Ch(text, SkipSpace(text, p + 4)) = "*"
        /\ ~ConstBefore(text, p)

\* C29: has_raw_char_params is computed from the parameter text of the
\* signature line only: it is true exactly when that text holds a char
\* pointer parameter that is not const-qualified, any amount of whitespace
\* standing between const and char, and holds neither argc nor argv; body
\* lines never affect it.
C29_RawCharFromSignatureOnly ==
    pc = "done"
        => \A k \in 1..Len(functions) :
               LET text == ParamText(lines[functions[k].start_line]) IN
               functions[k].has_raw_char_params
                   = (/\ RawCharPointer(text)
                      /\ ~Contains(text, "argc")
                      /\ ~Contains(text, "argv"))

----------------------------------------------------------------------------
(* Claims about the order of the returned list, under SpecRules.           *)

\* the rules of a function in the order check_file evaluates them
RuleOrder ==
    <<"assertion-density", "function-length", "no-malloc", "no-free",
      "bounded-loops", "doc-comment", "doc-params", "doc-return", "no-raw-char">>

\* the place of a violation in the order of the list: file-level ones
\* first, by line; then by start line and rule
OrderKey(v) ==
    IF v.rule = "no-tagged-union" THEN <<0, v.line, 0>>
    ELSE <<1, v.line, CHOOSE r \in 1..Len(RuleOrder) : RuleOrder[r] = v.rule>>

KeyBefore(a, b) ==
    \/ a[1] < b[1]
    \/ a[1] = b[1] /\ a[2] < b[2]
    \/ a[1] = b[1] /\ a[2] = b[2] /\ a[3] < b[3]

\* C30: the list check_file returns has a fixed order: the no-tagged-union
\* violations first, by increasing line, then the violations of the
\* functions by increasing start_line, within one function in the order
\* assertion-density, function-length, no-malloc, no-free, bounded-loops,
\* doc-comment or (doc-params, doc-return), no-raw-char; every
\* function-level violation stands on the start line of its function and
\* bears its non-empty name.
C30_ReturnedListOrder ==
    pc = "done"
        => /\ \A j, k \in 1..Len(violations) :
                  j < k => KeyBefore(OrderKey(violations[j]), OrderKey(violations[k]))
           /\ \A k \in 1..Len(violations) :
                  LET v == violations[k] IN
                  /\ v.rule = "doc-comment"
                         => /\ ~Reported("doc-params", v.line)
                            /\ ~Reported("doc-return", v.line)
                  /\ v.rule # "no-tagged-union"
                         => /\ v.function # ""
                            /\ \E n \in 1..Len(functions) :
                                   /\ functions[n].start_line = v.line
                                   /\ functions[n].name = v.function

\* C30 happens: check_file returned a list that opens with the warning for
\* a tagged enum member standing below the function whose violations
\* follow, doc-params, doc-return and no-raw-char last among them
C30_Witness ==
    /\ pc = "done"
    /\ Len(violations) >= 4
    /\ violations[1].rule = "no-tagged-union"
    /\ violations[1].line > violations[2].line
    /\ violations[Len(violations) - 2].rule = "doc-params"
    /\ violations[Len(violations) - 1].rule = "doc-return"
    /\ violations[Len(violations)].rule = "no-raw-char"

====
